---- MODULE Spec2Model ----
(***************************************************************************)
(* Model of chtz-document-generator: the forward generator (Markdown to    *)
(* DOCX) and the reverse converter (DOCX to Markdown).                     *)
(*                                                                         *)
(* Texts are sequences of atomic tokens.  A token stands for a word or a   *)
(* character of the Russian source text, written here in ASCII             *)
(* transliteration ("Termin" for the word the code spells in Cyrillic).    *)
(* " " and "NL" are the whitespace tokens (space, line feed).              *)
(***************************************************************************)
EXTENDS Integers, Sequences, FiniteSets, TLC

VARIABLES
    \* ---- table pipeline (forward builders, reader, recognizers, MdBuilder)
    srcBlock,     \* the directive block of the Markdown source
    docxTbl,      \* the w:tbl in document.xml: rows of cells of raw XML text
    table,        \* the table element ElementExtractor produced
    trResult,     \* what TableRecognizer.recognize returned for `table`
    trType,       \* what TableRecognizer.identifyType returned for `table`
    secElem,      \* what SectionRecognizer.processTable returned for `table`
    mdBlock,      \* what MdBuilder.buildTable emitted for `secElem`
    \* ---- DocumentValidator
    vPhase,       \* "new", "ready" (constructed) or "done" (validate returned)
    vStrict,      \* this.strict
    vDoc,         \* the recognized document handed to validate
    vResult,      \* what validate returned: valid, errors, warnings
    \* ---- ReverseConverter
    heap,         \* the arrays allocated so far: heap[a] is the content of array a
    convs,        \* the converters: options.strict and the array this.warnings names
    calls,        \* the convert() calls: converter, input, position, result
    \* ---- forward build and packaging
    files,        \* the image files present in imagesDir
    ctxHyperlinks,\* assembly context: the Map url -> temporary id, in insertion order
    ctxImages,    \* assembly context: the image descriptors pushed so far
    bcImages,     \* build context: the Map cleanPath -> descriptor, in insertion order
    docRefs,      \* document.xml: its r:id / r:embed attributes, in document order
    pkg,          \* the package assembleDocx wrote
    genResult,    \* what generate() returned
    \* ---- section recognition
    elements,     \* the element list handed to SectionRecognizer.recognize
    secResult,    \* what recognize returned
    \* ---- function-table directive
    ftElem,       \* the recognized function table MdBuilder was given
    ftParse,      \* parseFunctionTableContent: its content and its result
    \* ---- ReverseConverter.diff
    diffCall,     \* one call of diff: the two documents and what it returned
    \* ---- XmlParser
    xmlDoc,       \* one call of parse: the text and the tree it returned
    \* ---- scenario cell of a function table
    scn           \* a scenario, the cell built for it, the text read back

tblVars == <<srcBlock, docxTbl, table, trResult, trType, secElem, mdBlock>>

valVars == <<vPhase, vStrict, vDoc, vResult>>

convVars == <<heap, convs, calls>>

packVars == <<files, ctxHyperlinks, ctxImages, bcImages, docRefs, pkg, genResult>>

secVars == <<elements, secResult>>

ftVars == <<ftElem, ftParse>>

diffVars == <<diffCall>>

xmlVars == <<xmlDoc>>

scnVars == <<scn>>

vars == <<tblVars, valVars, convVars, packVars, secVars, ftVars, diffVars, xmlVars, scnVars>>

-----------------------------------------------------------------------------
(* Bounds *)

MaxRows == 3          \* rows of a table opened from an arbitrary DOCX
MaxDataRows == 2      \* data rows of a terms / changes directive
MaxMissing == 3       \* canonical sections a nearly complete document lacks
MaxPresent == 2       \* canonical sections a nearly empty document has
MaxHistory == 1       \* entries of the change history
MaxImages == 1        \* entries of the image table
MaxConverters == 2    \* ReverseConverter objects constructed
MaxCalls == 2         \* convert() calls started
MaxRefs == 3          \* links and images of the Markdown document
MaxTemplateImages == 1 \* media files the template already holds
MaxElements == 4      \* elements of the document body
MaxLines == 3         \* lines of a hand-written directive body
MaxDocLines == 3      \* lines of a document given to diff
MaxChildren == 3      \* child elements of a paragraph
MaxDepth == 2         \* tables nested in a cell of a table
MaxAtoms == 5         \* atoms of an arbitrary text given to the XML parser
MaxScenarioLines == 3 \* lines of the scenario of a function-table directive

-----------------------------------------------------------------------------
(* Strings as token sequences: String.prototype methods the code relies on *)

None == "none"

IsWs(t) == t \in {" ", "NL", "TAB"}

RECURSIVE TrimStart(_)
TrimStart(s) ==
    IF s = <<>> THEN <<>>
    ELSE IF IsWs(Head(s)) THEN TrimStart(Tail(s)) ELSE s

RECURSIVE TrimEnd(_)
TrimEnd(s) ==
    IF s = <<>> THEN <<>>
    ELSE IF IsWs(s[Len(s)]) THEN TrimEnd(SubSeq(s, 1, Len(s) - 1)) ELSE s

Trim(s) == TrimEnd(TrimStart(s))

\* lower-casing of one token
LowerTok(t) ==
    CASE t = "Termin" -> "termin"
      [] t = "Opredelenie" -> "opredelenie"
      [] t = "Sokrashchenie" -> "sokrashchenie"
      [] t = "Rasshifrovka" -> "rasshifrovka"
      [] t = "Kak est" -> "kak est"
      [] t = "Kak budet" -> "kak budet"
      [] t = "Funktsiya" -> "funktsiya"
      [] t = "Funktsiya:" -> "funktsiya:"
      [] t = "Zadacha" -> "zadacha"
      [] t = "N zadachi v reestre FTT" -> "n zadachi v reestre ftt"
      [] t = "Stsenarij" -> "stsenarij"
      [] t = "Termin i Opredelenie" -> "termin i opredelenie"
      [] t = "API" -> "api"
      [] t = "Opisanie funktsii Kak est" -> "opisanie funktsii kak est"
      [] t = "Opisanie funktsii Kak budet" -> "opisanie funktsii kak budet"
      [] OTHER -> t

ToLowerCase(s) == [i \in 1..Len(s) |-> LowerTok(s[i])]

\* the keywords that occur as substrings inside one lower-case token
KwOf(t) ==
    CASE t = "termin" -> {"termin"}
      [] t = "opredelenie" -> {"opredelenie"}
      [] t = "sokrashchenie" -> {"sokrashchenie"}
      [] t = "rasshifrovka" -> {"rasshifrovka"}
      [] t = "kak est" -> {"kak est"}
      [] t = "kak budet" -> {"kak budet"}
      [] t = "funktsiya" -> {"funktsiya"}
      [] t = "funktsiya:" -> {"funktsiya", "funktsiya:"}
      [] t = "zadacha" -> {"zadach"}
      [] t = "n zadachi v reestre ftt" -> {"zadach"}
      [] t = "stsenarij" -> {"stsenarij"}
      [] t = "termin i opredelenie" -> {"termin", "opredelenie"}
      [] t = "opisanie funktsii kak est" -> {"opisanie", "kak est"}
      [] t = "opisanie funktsii kak budet" -> {"opisanie", "kak budet"}
      [] OTHER -> {}

\* s.includes(kw) for a keyword kw
Includes(s, kw) == \E i \in 1..Len(s) : kw \in KwOf(s[i])

\* s.replace(/\n/g, ' ')
NlToSpace(s) == [i \in 1..Len(s) |-> IF s[i] = "NL" THEN " " ELSE s[i]]

\* s.replace(/\s+/g, ' ')
RECURSIVE CollapseWs(_)
CollapseWs(s) ==
    IF s = <<>> THEN <<>>
    ELSE IF IsWs(Head(s))
         THEN <<" ">> \o CollapseWs(TrimStart(s))
         ELSE <<Head(s)>> \o CollapseWs(Tail(s))

\* s.replace(/\|/g, '\\|')
EscapePipes(s) == [i \in 1..Len(s) |-> IF s[i] = "|" THEN "\\|" ELSE s[i]]

RECURSIVE Flatten(_)
Flatten(ss) == IF ss = <<>> THEN <<>> ELSE Head(ss) \o Flatten(Tail(ss))

\* xml-utils escapeXml: & first, then < > " '
EscapeTok(t) ==
    CASE t = "&" -> <<"&", "amp;">>
      [] t = "<" -> <<"&", "lt;">>
      [] t = ">" -> <<"&", "gt;">>
      [] t = "QUOT" -> <<"&", "quot;">>
      [] t = "APOS" -> <<"&", "apos;">>
      [] OTHER -> <<t>>

escapeXml(s) == Flatten([i \in 1..Len(s) |-> EscapeTok(s[i])])

\* one global replace of the entity "&" ent by the character ch
RECURSIVE ReplaceEntity(_, _, _)
ReplaceEntity(s, ent, ch) ==
    IF Len(s) < 2 THEN s
    ELSE IF s[1] = "&" /\ s[2] = ent
         THEN <<ch>> \o ReplaceEntity(SubSeq(s, 3, Len(s)), ent, ch)
         ELSE <<s[1]>> \o ReplaceEntity(Tail(s), ent, ch)

\* XmlParser.decodeXml: &lt; then &gt; then &amp; then &quot; then &apos;
decodeXml(s) ==
    LET s1 == ReplaceEntity(s, "lt;", "<")
        s2 == ReplaceEntity(s1, "gt;", ">")
        s3 == ReplaceEntity(s2, "amp;", "&")
        s4 == ReplaceEntity(s3, "quot;", "QUOT")
    IN  ReplaceEntity(s4, "apos;", "APOS")

\* XmlParser.parseContent: the text of an element is trimmed, then decoded
parseContentText(raw) == decodeXml(Trim(raw))

-----------------------------------------------------------------------------
(* Table elements.  A table is a sequence of rows, a row a sequence of     *)
(* cells, a cell its text (the texts of its paragraphs joined by "NL").    *)
(* A recognized element carries every field any recognizer may set; a      *)
(* field the code leaves undefined is the empty sequence, which every      *)
(* guard of MdBuilder treats as it treats undefined.                       *)

NoTable == [has |-> FALSE, rows |-> <<>>]

Elem(tt, rows, terms, changes, id, func, task, taskUrl, scenario) ==
    [tableType |-> tt, rows |-> rows, terms |-> terms, changes |-> changes,
     id |-> id, func |-> func, task |-> task, taskUrl |-> taskUrl,
     scenario |-> scenario]

NoElem == Elem("none", <<>>, <<>>, <<>>, <<>>, <<>>, <<>>, <<>>, <<>>)
Thrown == Elem("throw", <<>>, <<>>, <<>>, <<>>, <<>>, <<>>, <<>>, <<>>)

\* headers of the first row: c.text.toLowerCase().trim()
HeadersOf(firstRow) == [i \in 1..Len(firstRow) |-> Trim(ToLowerCase(firstRow[i]))]

AnyIncludes(headers, kws) ==
    \E i \in 1..Len(headers) : \E kw \in kws : Includes(headers[i], kw)

\* TermsTableRecognizer / ChangesTableRecognizer cleanText
cleanText(text) == Trim(CollapseWs(NlToSpace(text)))

TermsTableRecognizer_getType == "terms"

TermsTableRecognizer_canRecognize(rows) ==
    IF Len(rows) < 2 THEN FALSE
    ELSE IF Len(rows[1]) # 2 THEN FALSE
    ELSE LET headers == HeadersOf(rows[1])
         IN  /\ AnyIncludes(headers, {"termin", "sokrashchenie", "abbreviatura"})
             /\ AnyIncludes(headers, {"opredelenie", "rasshifrovka", "opisanie"})

RECURSIVE PairsOf(_, _)
\* the loop of both recognize() methods: rows with at least two cells and a
\* non-empty first or second cell, from row i on
PairsOf(rows, i) ==
    IF i > Len(rows) THEN <<>>
    ELSE LET row == rows[i]
         IN  IF Len(row) >= 2 /\ (cleanText(row[1]) # <<>> \/ cleanText(row[2]) # <<>>)
             THEN <<<<cleanText(row[1]), cleanText(row[2])>>>> \o PairsOf(rows, i + 1)
             ELSE PairsOf(rows, i + 1)

TermsTableRecognizer_recognize(rows) ==
    Elem("terms", <<>>, PairsOf(rows, 2), <<>>, <<>>, <<>>, <<>>, <<>>, <<>>)

ChangesTableRecognizer_getType == "changes"

ChangesTableRecognizer_canRecognize(rows) ==
    IF Len(rows) < 2 THEN FALSE
    ELSE IF Len(rows[1]) # 2 THEN FALSE
    ELSE LET headers == HeadersOf(rows[1])
         IN  /\ AnyIncludes(headers, {"kak est", "tekushchee", "bylo"})
             /\ AnyIncludes(headers, {"kak budet", "novoe", "stalo", "planiruetsya"})

ChangesTableRecognizer_recognize(rows) ==
    Elem("changes", <<>>, <<>>, PairsOf(rows, 2), <<>>, <<>>, <<>>, <<>>, <<>>)

FunctionTableRecognizer_getType == "function"

\* "yes", "no", or "throw": rows[1].cells[0] / rows[2].cells[0] is read
\* without a guard, so a second or third row without cells raises TypeError
FunctionTableRecognizer_canRecognize(rows) ==
    IF Len(rows) < 3 THEN "no"
    ELSE IF Len(rows[1]) # 2 THEN "no"
    ELSE IF Len(rows[2]) = 0 \/ Len(rows[3]) = 0 THEN "throw"
    ELSE LET labels == [i \in 1..3 |-> ToLowerCase(Trim(rows[i][1]))]
         IN  IF /\ labels[1] = <<"funktsiya">>
                /\ Includes(labels[2], "zadach")
                /\ labels[3] = <<"stsenarij">>
             THEN "yes" ELSE "no"

\* FunctionTableRecognizer.cleanText: also drops one leading list marker
FunctionTableRecognizer_cleanText(text) ==
    LET unmarked == IF text # <<>> /\ Head(text) \in {"BULLET", "-"}
                    THEN TrimStart(Tail(text)) ELSE text
    IN  Trim(CollapseWs(NlToSpace(unmarked)))

\* formatCell of a cell of plain runs outside lists: the paragraph texts
\* joined by "\n"; '' for a missing cell
formatCell(row, j) == IF j > Len(row) THEN <<>> ELSE row[j]

\* the words generateId keeps of one token: lower-cased, punctuation
\* stripped, longer than three letters
LongWordsOf(t) ==
    CASE t = "Termin" -> <<"termin">>
      [] t = "Opredelenie" -> <<"opredelenie">>
      [] t = "Funktsiya" -> <<"funktsiya">>
      [] t = "Funktsiya:" -> <<"funktsiya">>
      [] t = "Zadacha" -> <<"zadacha">>
      [] t = "Stsenarij" -> <<"stsenarij">>
      [] t = "Raschet" -> <<"raschet">>
      [] t = "PROJ-42" -> <<"proj42">>
      [] OTHER -> <<>>

\* the first task number /([A-Z]+-\d+)/i of a text, lower-cased
TaskNumbersOf(text) ==
    SelectSeq(text, LAMBDA t : t = "PROJ-42")

FunctionTableRecognizer_generateId(taskText, functionText) ==
    LET funcWords == Flatten([i \in 1..Len(functionText) |-> LongWordsOf(functionText[i])])
    IN  IF funcWords # <<>>
        THEN <<"func">> \o SubSeq(funcWords, 1, IF Len(funcWords) < 3 THEN Len(funcWords) ELSE 3)
        ELSE IF TaskNumbersOf(taskText) # <<>>
             THEN <<"func", "proj-42">>
             ELSE <<"func">>

\* the first plain URL /(https?:\/\/\S+)/ of the task text, or nothing
PlainUrlOf(text) ==
    LET urls == SelectSeq(text, LAMBDA t : t = "http://u")
    IN  IF urls = <<>> THEN <<>> ELSE <<urls[1]>>

\* recognize(): the scenario cell is dereferenced without a guard
\* (scenarioCell.tables), so a third row with one cell raises TypeError
FunctionTableRecognizer_recognize(rows) ==
    IF Len(rows[3]) < 2 THEN Thrown
    ELSE LET functionText == FunctionTableRecognizer_cleanText(formatCell(rows[1], 2))
             taskText == FunctionTableRecognizer_cleanText(formatCell(rows[2], 2))
             scenarioText == formatCell(rows[3], 2)
         IN  Elem("function", <<>>, <<>>, <<>>,
                  FunctionTableRecognizer_generateId(taskText, functionText),
                  functionText, taskText, PlainUrlOf(taskText),
                  TrimStart(scenarioText))

\* TableRecognizer.recognize: the recognizers in registration order
TableRecognizer_recognize(rows) ==
    LET f == FunctionTableRecognizer_canRecognize(rows)
    IN  IF f = "throw" THEN Thrown
        ELSE IF f = "yes" THEN FunctionTableRecognizer_recognize(rows)
        ELSE IF TermsTableRecognizer_canRecognize(rows)
             THEN TermsTableRecognizer_recognize(rows)
        ELSE IF ChangesTableRecognizer_canRecognize(rows)
             THEN ChangesTableRecognizer_recognize(rows)
        ELSE Elem("regular", rows, <<>>, <<>>, <<>>, <<>>, <<>>, <<>>, <<>>)

\* a recognizer that tries the terms check before the function check
TermsFirst_identifyType(rows) ==
    LET f == FunctionTableRecognizer_canRecognize(rows)
    IN  IF f = "throw" THEN "throw"
        ELSE IF TermsTableRecognizer_canRecognize(rows) THEN TermsTableRecognizer_getType
        ELSE IF f = "yes" THEN FunctionTableRecognizer_getType
        ELSE IF ChangesTableRecognizer_canRecognize(rows) THEN ChangesTableRecognizer_getType
        ELSE "regular"

\* a recognizer whose answer depends on what was recognized before
Stateful_identifyType(rows) ==
    LET f == FunctionTableRecognizer_canRecognize(rows)
    IN  IF f = "throw" THEN "throw"
        ELSE IF trResult.tableType = "none" THEN "regular"
        ELSE IF f = "yes" THEN FunctionTableRecognizer_getType
        ELSE IF TermsTableRecognizer_canRecognize(rows) THEN TermsTableRecognizer_getType
        ELSE IF ChangesTableRecognizer_canRecognize(rows) THEN ChangesTableRecognizer_getType
        ELSE "regular"

\* TableRecognizer.identifyType
TableRecognizer_identifyType(rows) ==
    LET f == FunctionTableRecognizer_canRecognize(rows)
    IN  IF f = "throw" THEN "throw"
        ELSE IF f = "yes" THEN FunctionTableRecognizer_getType
        ELSE IF TermsTableRecognizer_canRecognize(rows) THEN TermsTableRecognizer_getType
        ELSE IF ChangesTableRecognizer_canRecognize(rows) THEN ChangesTableRecognizer_getType
        ELSE "regular"

\* /[bullet]\s*Funktsiya:/i somewhere in the text
MatchesBulletFunction(text) ==
    \E i \in 1..Len(text) :
        /\ text[i] = "BULLET"
        /\ LET rest == TrimStart(SubSeq(text, i + 1, Len(text)))
           IN  rest # <<>> /\ LowerTok(Head(rest)) = "funktsiya:"

SectionRecognizer_identifyTableType(rows) ==
    IF Len(rows) = 0 THEN "regular"
    ELSE IF Len(rows[1]) = 0 THEN "regular"
    ELSE LET headers == HeadersOf(rows[1])
         IN  IF /\ Len(headers) = 2
                /\ AnyIncludes(headers, {"termin"})
                /\ AnyIncludes(headers, {"opredelenie"})
             THEN "terms"
             ELSE IF /\ Len(headers) = 2
                     /\ AnyIncludes(headers, {"kak est"})
                     /\ AnyIncludes(headers, {"kak budet"})
             THEN "changes"
             ELSE IF MatchesBulletFunction(rows[1][1]) THEN "function"
             ELSE "regular"

\* SectionRecognizer.processTable: the tag and the rows, nothing else
SectionRecognizer_processTable(rows) ==
    Elem(SectionRecognizer_identifyTableType(rows), rows,
         <<>>, <<>>, <<>>, <<>>, <<>>, <<>>, <<>>)

-----------------------------------------------------------------------------
(* Markdown blocks: a directive block of the source, or what MdBuilder     *)
(* emits for one table.  directive is "terms", "changes-table",            *)
(* "function-table", "table" (a pipe table), "empty" (the empty string)    *)
(* or "none" (nothing yet).                                                *)

Block(directive, headers, rows, id, func, task, taskUrl, scenario) ==
    [directive |-> directive, headers |-> headers, rows |-> rows, id |-> id,
     func |-> func, task |-> task, taskUrl |-> taskUrl, scenario |-> scenario]

NoBlock == Block("none", <<>>, <<>>, <<>>, <<>>, <<>>, <<>>, <<>>)
EmptyBlock == Block("empty", <<>>, <<>>, <<>>, <<>>, <<>>, <<>>, <<>>)

\* a w:tc holding one paragraph of one run
TextCell(text) == <<<<escapeXml(text)>>>>

\* table-builder buildSimpleTable: a header row and the data rows, every
\* cell one paragraph of one run whose w:t is escapeXml(cell)
buildSimpleTable(headers, rows) ==
    <<[j \in 1..Len(headers) |-> TextCell(headers[j])]>> \o
    [i \in 1..Len(rows) |-> [j \in 1..Len(rows[i]) |-> TextCell(rows[i][j])]]

\* terms-builder buildTermsTable: '' for a table without data rows
buildTermsTable(b) ==
    IF b.rows = <<>> THEN NoTable
    ELSE [has |-> TRUE, rows |-> buildSimpleTable(b.headers, b.rows)]

\* changes-builder buildChangesTable
buildChangesTable(b) ==
    IF b.rows = <<>> THEN NoTable
    ELSE [has |-> TRUE, rows |-> buildSimpleTable(b.headers, b.rows)]

\* function-table-builder buildFunctionTable for plain-text fields without
\* task URL: label cells in the first column; the function cell is one
\* paragraph of the bullet run and the text run; the scenario cell one
\* paragraph for each line
forward_buildFunctionTable(b) ==
    [has |-> TRUE,
     rows |-> <<
        <<TextCell(<<"Funktsiya">>),
          << <<<<"BULLET", " ">>, escapeXml(b.func)>> >> >>,
        <<TextCell(<<"N zadachi v reestre FTT">>),
          IF b.task # <<>> THEN TextCell(b.task) ELSE << <<>> >> >>,
        <<TextCell(<<"Stsenarij">>),
          [k \in 1..Len(b.scenario) |-> <<escapeXml(b.scenario[k])>>] >>
     >>]

\* document-builder processDirectiveNode: the builder of the directive
buildDirective(b) ==
    IF b.directive = "terms" THEN buildTermsTable(b)
    ELSE IF b.directive = "changes-table" THEN buildChangesTable(b)
    ELSE forward_buildFunctionTable(b)

RECURSIVE Join(_, _)
\* parts.join(sep)
Join(parts, sep) ==
    IF parts = <<>> THEN <<>>
    ELSE IF Len(parts) = 1 THEN parts[1]
    ELSE parts[1] \o <<sep>> \o Join(Tail(parts), sep)

\* ElementExtractor.extractParagraph: the run texts joined without separator
extractParagraph(par) == Flatten([k \in 1..Len(par) |-> parseContentText(par[k])])

\* ElementExtractor.extractTableCell: the paragraph texts joined by "\n"
extractTableCell(tc) == Join([k \in 1..Len(tc) |-> extractParagraph(tc[k])], "NL")

\* ElementExtractor.extractTableRow
extractTableRow(tr) == [j \in 1..Len(tr) |-> extractTableCell(tr[j])]

\* ElementExtractor.extractTable
extractTable(tbl) == [i \in 1..Len(tbl) |-> extractTableRow(tbl[i])]

\* MdBuilder.escapeTableCell
escapeTableCell(text) == Trim(NlToSpace(EscapePipes(text)))

RECURSIVE Split(_)
\* text.split('\n')
Split(text) ==
    IF \A i \in 1..Len(text) : text[i] # "NL" THEN <<text>>
    ELSE LET i == CHOOSE k \in 1..Len(text) :
                      text[k] = "NL" /\ \A m \in 1..(k - 1) : text[m] # "NL"
         IN  <<SubSeq(text, 1, i - 1)>> \o Split(SubSeq(text, i + 1, Len(text)))

MdBuilder_buildTermsTable(e) ==
    Block("terms", <<<<"Termin">>, <<"Opredelenie">>>>,
          [i \in 1..Len(e.terms) |->
              <<escapeTableCell(e.terms[i][1]), escapeTableCell(e.terms[i][2])>>],
          <<>>, <<>>, <<>>, <<>>, <<>>)

MdBuilder_buildChangesTable(e) ==
    Block("changes-table",
          <<<<"Opisanie funktsii Kak est">>, <<"Opisanie funktsii Kak budet">>>>,
          [i \in 1..Len(e.changes) |->
              <<escapeTableCell(e.changes[i][1]), escapeTableCell(e.changes[i][2])>>],
          <<>>, <<>>, <<>>, <<>>, <<>>)

MdBuilder_buildFunctionTable(e) ==
    Block("function-table", <<>>, <<>>, e.id, e.func, e.task, e.taskUrl,
          Split(e.scenario))

MdBuilder_buildRegularTable(e) ==
    IF e.rows = <<>> THEN EmptyBlock
    ELSE Block("table",
               [j \in 1..Len(e.rows[1]) |-> escapeTableCell(e.rows[1][j])],
               [i \in 1..(Len(e.rows) - 1) |->
                   [j \in 1..Len(e.rows[i + 1]) |-> escapeTableCell(e.rows[i + 1][j])]],
               <<>>, <<>>, <<>>, <<>>, <<>>)

\* MdBuilder.buildTable: the switch on tableType
MdBuilder_buildTable(e) ==
    IF e.tableType = "terms" THEN MdBuilder_buildTermsTable(e)
    ELSE IF e.tableType = "changes" THEN MdBuilder_buildChangesTable(e)
    ELSE IF e.tableType = "function" THEN MdBuilder_buildFunctionTable(e)
    ELSE MdBuilder_buildRegularTable(e)

-----------------------------------------------------------------------------
(* DocumentValidator.  An error or warning is its code and the variable    *)
(* part of its message.                                                    *)

Issue(code, info) == [code |-> code, info |-> info]

\* !s || s.trim() === ''
Blank(s) == Trim(s) = <<>>

\* /^\d{2}\.\d{2}\.\d{4}$/ on a date given as one token
DatePatternTest(d) == d = <<"15.01.2025">>

NoConsultant == [present |-> FALSE, name |-> <<>>, email |-> <<>>]

RequiredFields == <<"shortName", "organization", "createdDate">>

\* validateMetadata: the codes raised as errors in strict mode and as
\* warnings otherwise
MetadataModeIssues(md) ==
    LET fields == SelectSeq(RequiredFields, LAMBDA f : Blank(md[f]))
    IN  [i \in 1..Len(fields) |-> Issue("METADATA_REQUIRED_FIELD", <<fields[i]>>)]
        \o (IF ~md.consultant.present
            THEN <<Issue("METADATA_CONSULTANT_MISSING", <<>>)>>
            ELSE IF Blank(md.consultant.name) \/ md.consultant.name = <<"Neizvestno">>
                 THEN <<Issue("METADATA_CONSULTANT_NAME", <<>>)>>
                 ELSE <<>>)

\* validateMetadata: the warnings raised in either mode
MetadataWarnings(md) ==
    (IF md.consultant.present /\ Blank(md.consultant.email)
     THEN <<Issue("METADATA_CONSULTANT_EMAIL", <<>>)>> ELSE <<>>)
    \o (IF md.createdDate # <<>> /\ ~DatePatternTest(md.createdDate)
        THEN <<Issue("METADATA_DATE_FORMAT", md.createdDate)>> ELSE <<>>)

validateMetadata(md, strict) ==
    IF ~md.present
    THEN [errors |-> <<Issue("METADATA_MISSING", <<>>)>>, warnings |-> <<>>]
    ELSE [errors |-> IF strict THEN MetadataModeIssues(md) ELSE <<>>,
          warnings |-> (IF strict THEN <<>> ELSE MetadataModeIssues(md))
                       \o MetadataWarnings(md)]

\* validateHistory: the three checks on entry i
HistoryEntryWarnings(entry, i) ==
    (IF Blank(entry.version) THEN <<Issue("HISTORY_VERSION_MISSING", <<i>>)>> ELSE <<>>)
    \o (IF Blank(entry.date) THEN <<Issue("HISTORY_DATE_MISSING", <<i>>)>> ELSE <<>>)
    \o (IF Blank(entry.comment) THEN <<Issue("HISTORY_COMMENT_MISSING", <<i>>)>> ELSE <<>>)

\* validateHistory if an absent history were an error in either mode
AlwaysError_validateHistory(history, strict) ==
    IF history = <<>>
    THEN [errors |-> <<Issue("HISTORY_MISSING", <<>>)>>, warnings |-> <<>>]
    ELSE [errors |-> <<>>,
          warnings |-> Flatten([i \in 1..Len(history) |->
                                   HistoryEntryWarnings(history[i], i)])]

validateHistory(history, strict) ==
    IF history = <<>>
    THEN [errors |-> IF strict THEN <<Issue("HISTORY_MISSING", <<>>)>> ELSE <<>>,
          warnings |-> IF strict THEN <<>> ELSE <<Issue("HISTORY_MISSING", <<>>)>>]
    ELSE [errors |-> <<>>,
          warnings |-> Flatten([i \in 1..Len(history) |->
                                   HistoryEntryWarnings(history[i], i)])]

\* the ten required sections of validateSections, by position in the array
NumRequiredSections == 10

\* the required sections whose pattern a lower-case title token begins to
\* match; for section 6 that is the part of its pattern before ".*"
BeginsWith(t) ==
    CASE t = "terminy i opredeleniya" -> {1}
      [] t = "glossarij" -> {1}
      [] t = "iskhodnye dannye zadaniya" -> {2}
      [] t = "izmenenie funktsionala sistemy" -> {3}
      [] t = "opisanie izmenenij v it-sisteme" -> {4, 6}
      [] t = "opisanie izmenenij v integratsionnykh mekhanizmakh" -> {5, 6}
      [] t = "opisanie izmenenij, sostava obrabatyvaemykh pdn" -> {6}
      [] t = "vkhodnye formy" -> {7}
      [] t = "vykhodnye formy" -> {8}
      [] t = "opisanie izmenenij v rolevoj modeli" -> {9, 6}
      [] t = "prilozheniya" -> {10}
      [] OTHER -> {}

\* lower-casing of a title token (the patterns carry the i flag)
LowerTitleTok(t) ==
    CASE t = "Terminy i opredeleniya" -> "terminy i opredeleniya"
      [] t = "Glossarij" -> "glossarij"
      [] t = "Iskhodnye dannye zadaniya" -> "iskhodnye dannye zadaniya"
      [] t = "Izmenenie funktsionala sistemy" -> "izmenenie funktsionala sistemy"
      [] t = "Opisanie izmenenij v IT-sisteme" -> "opisanie izmenenij v it-sisteme"
      [] t = "Opisanie izmenenij v integratsionnykh mekhanizmakh"
            -> "opisanie izmenenij v integratsionnykh mekhanizmakh"
      [] t = "Opisanie izmenenij, sostava obrabatyvaemykh PDn"
            -> "opisanie izmenenij, sostava obrabatyvaemykh pdn"
      [] t = "Vkhodnye formy" -> "vkhodnye formy"
      [] t = "Vykhodnye formy" -> "vykhodnye formy"
      [] t = "Opisanie izmenenij v rolevoj modeli" -> "opisanie izmenenij v rolevoj modeli"
      [] t = "Prilozheniya" -> "prilozheniya"
      [] t = "PRILOZHENIYA" -> "prilozheniya"
      [] t = "PDn" -> "pdn"
      [] OTHER -> t

\* the token contains the abbreviation the pattern of section 6 ends with
ContainsPDn(t) == t \in {"pdn", "opisanie izmenenij, sostava obrabatyvaemykh pdn"}

\* ^\d+\. : titles carry their number as one leading token
IsNumberDot(t) == t \in {"1.", "2.", "3.", "4.", "5.", "6.", "7.", "8.", "9.", "10."}

\* requiredSections[i].pattern.test(title)
PatternTest(i, title) ==
    /\ title # <<>>
    /\ IsNumberDot(title[1])
    /\ LET rest == TrimStart(Tail(title))
       IN  /\ rest # <<>>
           /\ IF i = 6
              THEN /\ 6 \in BeginsWith(LowerTitleTok(rest[1]))
                   /\ \E k \in 1..Len(rest) : ContainsPDn(LowerTitleTok(rest[k]))
              ELSE i \in BeginsWith(LowerTitleTok(rest[1]))

\* foundSections if the level of a section were not looked at
AnyLevel_FoundSections(sections) ==
    {i \in 1..NumRequiredSections :
        \E k \in 1..Len(sections) :
            /\ sections[k].title # <<>>
            /\ PatternTest(i, sections[k].title)}

\* foundSections after the loop over the sections
FoundSections(sections) ==
    {i \in 1..NumRequiredSections :
        \E k \in 1..Len(sections) :
            /\ sections[k].level = 1
            /\ sections[k].title # <<>>
            /\ PatternTest(i, sections[k].title)}

\* missingSections: the indices not found, in array order
MissingSections(sections) ==
    LET found == FoundSections(sections)
    IN  SelectSeq([i \in 1..NumRequiredSections |-> i], LAMBDA i : i \notin found)

\* the SECTION_NO_SUBSECTIONS warnings, one for each level-1 section
\* matching pattern 2 that no level-2 section names as parent
NoSubsectionWarnings(sections) ==
    LET lonely == SelectSeq(sections, LAMBDA sec :
                     /\ sec.level = 1
                     /\ PatternTest(2, sec.title)
                     /\ ~\E k \in 1..Len(sections) :
                            sections[k].level = 2 /\ sections[k].parent = sec.id)
    IN  [k \in 1..Len(lonely) |-> Issue("SECTION_NO_SUBSECTIONS", lonely[k].title)]

validateSections(sections) ==
    IF sections = <<>>
    THEN [errors |-> <<Issue("SECTIONS_MISSING", <<>>)>>, warnings |-> <<>>]
    ELSE LET missingSections == MissingSections(sections)
         IN  [errors |-> IF missingSections # <<>>
                         THEN <<Issue("SECTIONS_REQUIRED_MISSING", missingSections)>>
                         ELSE <<>>,
              warnings |-> NoSubsectionWarnings(sections)]

\* validateImages: the checks on image i
ImageWarnings(img, i) ==
    (IF img.filename = <<>> THEN <<Issue("IMAGE_NO_FILENAME", <<i>>)>> ELSE <<>>)
    \o (IF img.contentType = <<>> THEN <<Issue("IMAGE_NO_CONTENT_TYPE", img.filename)>> ELSE <<>>)

validateImages(images) ==
    [errors |-> Flatten([i \in 1..Len(images) |->
                    IF images[i].size = 0
                    THEN <<Issue("IMAGE_EMPTY", images[i].filename)>> ELSE <<>>]),
     warnings |-> Flatten([i \in 1..Len(images) |-> ImageWarnings(images[i], i)])]

NoIssues == [errors |-> <<>>, warnings |-> <<>>]

\* DocumentValidator.validate
validate(doc, strict) ==
    LET m == validateMetadata(doc.metadata, strict)
        h == validateHistory(doc.history, strict)
        sc == IF strict THEN validateSections(doc.sections) ELSE NoIssues
        im == validateImages(doc.images)
        errors == m.errors \o h.errors \o sc.errors \o im.errors
    IN  [valid |-> errors = <<>>,
         errors |-> errors,
         warnings |-> m.warnings \o h.warnings \o sc.warnings \o im.warnings]

Metadata(shortName, organization, createdDate, consultant) ==
    [present |-> TRUE, shortName |-> shortName, organization |-> organization,
     createdDate |-> createdDate, consultant |-> consultant]

NoMetadata == [present |-> FALSE, shortName |-> <<>>, organization |-> <<>>,
               createdDate |-> <<>>, consultant |-> NoConsultant]

NoDoc == [metadata |-> NoMetadata, history |-> <<>>, sections |-> <<>>, images |-> <<>>]

NoResult == [valid |-> FALSE, errors |-> <<>>, warnings |-> <<>>]

\* no validator has been constructed
ValIdle ==
    /\ vPhase = "new"
    /\ vStrict = FALSE
    /\ vDoc = NoDoc
    /\ vResult = NoResult

\* no converter has been constructed
ConvIdle ==
    /\ heap = <<>>
    /\ convs = <<>>
    /\ calls = <<>>

Urls == {"http://u", "http://v"}

ImagePaths == {"a.png", "b.png"}

NoPackage ==
    [written |-> FALSE, rels |-> <<>>, refs |-> <<>>, media |-> <<>>, template |-> {},
     threw |-> "none", tempDir |-> FALSE]

NoGenResult ==
    [ended |-> FALSE, rejected |-> FALSE, success |-> FALSE, error |-> "none",
     stack |-> FALSE, outputPath |-> "none"]

\* generate() has created its context; every image file is in place
BuildIdle ==
    /\ files = ImagePaths
    /\ ctxHyperlinks = <<>>
    /\ ctxImages = <<>>
    /\ bcImages = <<>>
    /\ docRefs = <<>>
    /\ pkg = NoPackage
    /\ genResult = NoGenResult

NoSections == [done |-> FALSE, list |-> <<>>]

\* no body extracted yet, recognize not called yet
SecIdle ==
    /\ elements = <<>>
    /\ secResult = NoSections

\* the keys a function-table body assigns; "note" stands for any other word
Keys == {"function", "task", "taskUrl", "scenario", "note"}

\* result = {function: '', task: '', taskUrl: '', scenario: ''}
EmptyResult == [k \in Keys |-> <<>>]

NoParse == [phase |-> "idle", emitted |-> FALSE, content |-> <<>>, result |-> EmptyResult]

NoStats == [identical |-> FALSE, linesAdded |-> 0, linesRemoved |-> 0, linesChanged |-> 0]

NoDiff == [done |-> FALSE, original |-> <<>>, converted |-> <<>>, changes |-> <<>>,
           stats |-> NoStats, message |-> "none"]

\* diff was not called
DiffIdle == diffCall = NoDiff

\* an element of a source document: its tag, attributes, text, children
El(tag, attributes, text, kids) ==
    [tag |-> tag, attributes |-> attributes, text |-> text, kids |-> kids]

NoXml == [done |-> FALSE, kind |-> "none", xml |-> <<>>, tree |-> El("none", <<>>, <<>>, <<>>),
          isNull |-> TRUE, tagName |-> <<>>,
          value |-> [isString |-> TRUE, attributes |-> <<>>, hasText |-> FALSE,
                     text |-> <<>>, keys |-> <<>>, childrenOrder |-> <<>>],
          runs |-> <<>>]

\* parse was not called
XmlIdle == xmlDoc = NoXml

\* the fields of a function-table directive and of a recognized function table
Fields(function, task, taskUrl, scenario) ==
    [function |-> function, task |-> task, taskUrl |-> taskUrl, scenario |-> scenario]

NoScenario ==
    [phase |-> "idle", data |-> Fields(<<>>, <<>>, <<>>, <<>>), files |-> {},
     cells |-> [function |-> <<>>, task |-> <<>>, scenario |-> <<>>],
     relations |-> <<>>, images |-> <<>>, context |-> FALSE,
     result |-> Fields(<<>>, <<>>, <<>>, <<>>)]

\* no scenario cell was built
ScnIdle == scn = NoScenario

\* nothing emitted, nothing parsed
FtIdle ==
    /\ ftElem = NoElem
    /\ ftParse = NoParse

-----------------------------------------------------------------------------
(* The table pipeline as a state machine *)

\* cell texts of the Markdown source
SrcCellTexts == {<<"API">>, <<"x">>, <<"A", "&", "B">>}

SrcRows == {<<a, b>> : a \in SrcCellTexts, b \in SrcCellTexts}

SeqsUpTo(S, n) == UNION {[1..k -> S] : k \in 0..n}

TermsBlocks ==
    {Block("terms", h, r, <<>>, <<>>, <<>>, <<>>, <<>>) :
        h \in {<<<<"Termin">>, <<"Opredelenie">>>>,
               <<<<"Sokrashchenie">>, <<"Rasshifrovka">>>>},
        r \in SeqsUpTo(SrcRows, MaxDataRows)}

ChangesBlocks ==
    {Block("changes-table", <<<<"Kak est">>, <<"Kak budet">>>>, r,
           <<>>, <<>>, <<>>, <<>>, <<>>) :
        r \in SeqsUpTo(SrcRows, MaxDataRows)}

FunctionBlocks ==
    {Block("function-table", <<>>, <<>>, <<"func-x">>, f, t, <<>>, sc) :
        f \in {<<"Raschet">>, <<"x">>},
        t \in {<<>>, <<"PROJ-42">>},
        sc \in SeqsUpTo({<<"x">>, <<"API">>}, MaxDataRows)}

SrcBlocks == TermsBlocks \cup ChangesBlocks \cup FunctionBlocks

\* tables of a DOCX that was not produced by the generator
HeaderTexts ==
    {<<"Termin">>, <<"Opredelenie">>, <<"Sokrashchenie">>, <<"Kak est">>,
     <<"Kak budet">>, <<"Funktsiya">>, <<"Termin i Opredelenie">>,
     <<"BULLET", " ", "Funktsiya:">>, <<"Termin", " ", "Kak est">>,
     <<"Opisanie funktsii Kak budet">>}

FirstRows ==
    {<<>>} \cup {<<a>> : a \in HeaderTexts}
           \cup {<<a, b>> : a \in HeaderTexts, b \in HeaderTexts}

OtherRows ==
    {<<>>, <<<<"Stsenarij">>>>, <<<<"Zadacha">>, <<"x">>>>,
     <<<<"Stsenarij">>, <<"x">>>>, <<<<"x">>, <<"x">>>>, <<<<"x">>, <<>>>>}

ForeignTables ==
    {<<>>} \cup
    UNION {{<<f>> \o r : f \in FirstRows, r \in [1..k -> OtherRows]} : k \in 0..(MaxRows - 1)}

\* the w:tbl of a table given by its cell texts
DocxOf(rows) ==
    [has |-> TRUE,
     rows |-> [i \in 1..Len(rows) |-> [j \in 1..Len(rows[i]) |-> TextCell(rows[i][j])]]]

\* what the table pipeline never touches
OutsideTables == <<valVars, convVars, packVars, secVars, ftVars, diffVars, xmlVars, scnVars>>

\* what the validator never touches
OutsideValidator == <<tblVars, convVars, packVars, secVars, ftVars, diffVars, xmlVars, scnVars>>

\* what the converter never touches
OutsideConverter == <<tblVars, valVars, packVars, secVars, ftVars, diffVars, xmlVars, scnVars>>

\* what the forward build never touches
OutsideBuild == <<tblVars, valVars, convVars, secVars, ftVars, diffVars, xmlVars, scnVars>>

TblInit ==
    /\ ValIdle
    /\ ConvIdle
    /\ BuildIdle
    /\ SecIdle
    /\ FtIdle
    /\ DiffIdle
    /\ XmlIdle
    /\ ScnIdle
    /\ srcBlock = NoBlock
    /\ docxTbl = NoTable
    /\ table = NoTable
    /\ trResult = NoElem
    /\ trType = "none"
    /\ secElem = NoElem
    /\ mdBlock = NoBlock

\* the generator builds the table of one directive block
GenerateDocx ==
    /\ srcBlock = NoBlock /\ ~docxTbl.has
    /\ \E b \in SrcBlocks :
          /\ srcBlock' = b
          /\ docxTbl' = buildDirective(b)
    /\ UNCHANGED <<table, trResult, trType, secElem, mdBlock>>
    /\ UNCHANGED OutsideTables

\* a document written by hand is opened instead
OpenDocx ==
    /\ srcBlock = NoBlock /\ ~docxTbl.has
    /\ \E rows \in ForeignTables : docxTbl' = DocxOf(rows)
    /\ UNCHANGED <<srcBlock, table, trResult, trType, secElem, mdBlock>>
    /\ UNCHANGED OutsideTables

\* DocxReader + ElementExtractor.extractTable
ExtractTable ==
    /\ docxTbl.has /\ ~table.has
    /\ table' = [has |-> TRUE, rows |-> extractTable(docxTbl.rows)]
    /\ UNCHANGED <<srcBlock, docxTbl, trResult, trType, secElem, mdBlock>>
    /\ UNCHANGED OutsideTables

TableRecognizerRecognize ==
    /\ table.has
    /\ trResult' = TableRecognizer_recognize(table.rows)
    /\ UNCHANGED <<srcBlock, docxTbl, table, trType, secElem, mdBlock>>
    /\ UNCHANGED OutsideTables

TableRecognizerIdentifyType ==
    /\ table.has
    /\ trType' = TableRecognizer_identifyType(table.rows)
    /\ UNCHANGED <<srcBlock, docxTbl, table, trResult, secElem, mdBlock>>
    /\ UNCHANGED OutsideTables

SectionProcessTable ==
    /\ table.has
    /\ secElem' = SectionRecognizer_processTable(table.rows)
    /\ UNCHANGED <<srcBlock, docxTbl, table, trResult, trType, mdBlock>>
    /\ UNCHANGED OutsideTables

MdBuildTable ==
    /\ secElem.tableType # "none"
    /\ mdBlock' = MdBuilder_buildTable(secElem)
    /\ UNCHANGED <<srcBlock, docxTbl, table, trResult, trType, secElem>>
    /\ UNCHANGED OutsideTables

TblNext ==
    \/ GenerateDocx
    \/ OpenDocx
    \/ ExtractTable
    \/ TableRecognizerRecognize
    \/ TableRecognizerIdentifyType
    \/ SectionProcessTable
    \/ MdBuildTable

SpecTables == TblInit /\ [][TblNext]_vars

-----------------------------------------------------------------------------
(* Properties of the table pipeline *)

TableTags == {"function", "terms", "changes", "regular"}

\* C1: a terms, changes-table or function-table block of the source comes
\* back from forward-then-reverse as a block of the same directive with the
\* same number of data rows and the same field values.
C1_RoundTripBlocks ==
    (srcBlock.directive # "none" /\ mdBlock.directive # "none") =>
        /\ mdBlock.directive = srcBlock.directive
        /\ Len(mdBlock.rows) = Len(srcBlock.rows)
        /\ mdBlock.rows = srcBlock.rows
        /\ mdBlock.func = srcBlock.func
        /\ mdBlock.task = srcBlock.task
        /\ mdBlock.scenario = srcBlock.scenario

\* C2: the tag SectionRecognizer assigns inline to a table is the tag
\* TableRecognizer assigns to the same table.
C2_InlineTagIsRecognizerTag ==
    (secElem.tableType \in TableTags /\ trType \in TableTags) =>
        secElem.tableType = trType

-----------------------------------------------------------------------------
(* The validator as a state machine *)

CompleteConsultant == [present |-> TRUE, name |-> <<"Ivanov">>, email |-> <<"i@x">>]

CompleteMetadata ==
    Metadata(<<"x">>, <<"x">>, <<"15.01.2025">>, CompleteConsultant)

Metadatas ==
    {CompleteMetadata,
     NoMetadata,
     Metadata(<<" ">>, <<"x">>, <<"15.01.2025">>, CompleteConsultant),
     Metadata(<<"x">>, <<>>, <<"2025-01-15">>, NoConsultant),
     Metadata(<<"x">>, <<"x">>, <<>>,
              [present |-> TRUE, name |-> <<"Neizvestno">>, email |-> <<>>]),
     Metadata(<<"x">>, <<"x">>, <<"15.01.2025">>,
              [present |-> TRUE, name |-> <<" ">>, email |-> <<"i@x">>]),
     Metadata(<<"x">>, <<"x">>, <<"2025-01-15">>, CompleteConsultant)}

CompleteEntry == [version |-> <<"1.0">>, date |-> <<"15.01.2025">>, comment |-> <<"x">>]

HistoryEntries == {CompleteEntry, [version |-> <<>>, date |-> <<" ">>, comment |-> <<>>]}

Images ==
    {[filename |-> <<"image1.png">>, contentType |-> <<"image/png">>, size |-> 1],
     [filename |-> <<"image1.png">>, contentType |-> <<"image/png">>, size |-> 0],
     [filename |-> <<>>, contentType |-> <<>>, size |-> 1]}

\* metadata, history and image table, varied one at a time
Profiles ==
    {[metadata |-> md, history |-> <<CompleteEntry>>, images |-> <<>>] : md \in Metadatas}
    \cup {[metadata |-> CompleteMetadata, history |-> h, images |-> <<>>] :
             h \in SeqsUpTo(HistoryEntries, MaxHistory)}
    \cup {[metadata |-> CompleteMetadata, history |-> <<CompleteEntry>>, images |-> im] :
             im \in SeqsUpTo(Images, MaxImages)}

CanonicalTitle(i) ==
    CASE i = 1 -> <<"1.", " ", "Terminy i opredeleniya">>
      [] i = 2 -> <<"2.", " ", "Iskhodnye dannye zadaniya">>
      [] i = 3 -> <<"3.", " ", "Izmenenie funktsionala sistemy">>
      [] i = 4 -> <<"4.", " ", "Opisanie izmenenij v IT-sisteme">>
      [] i = 5 -> <<"5.", " ", "Opisanie izmenenij v integratsionnykh mekhanizmakh">>
      [] i = 6 -> <<"6.", " ", "Opisanie izmenenij, sostava obrabatyvaemykh PDn">>
      [] i = 7 -> <<"7.", " ", "Vkhodnye formy">>
      [] i = 8 -> <<"8.", " ", "Vykhodnye formy">>
      [] i = 9 -> <<"9.", " ", "Opisanie izmenenij v rolevoj modeli">>
      [] OTHER -> <<"10.", "PRILOZHENIYA">>

Section(id, title, level, parent) ==
    [id |-> id, title |-> title, level |-> level, parent |-> parent]

\* the canonical level-1 sections of the set S, in document order
CanonicalSections(S) ==
    LET idx == SelectSeq([i \in 1..NumRequiredSections |-> i], LAMBDA i : i \in S)
    IN  [k \in 1..Len(idx) |-> Section(idx[k], CanonicalTitle(idx[k]), 1, 0)]

\* one more section the document may hold besides the canonical ones
ExtraSections ==
    {<<>>,
     <<Section(11, <<"1.", " ", "Glossarij">>, 1, 0)>>,
     <<Section(11, <<"4.", " ", "Opisanie izmenenij v IT-sisteme", " ", "PDn">>, 1, 0)>>,
     <<Section(11, <<"Prilozheniya">>, 1, 0)>>,
     <<Section(11, <<"7.", " ", "Vkhodnye formy">>, 2, 2)>>,
     <<Section(11, <<"x">>, 1, 0)>>}

CanonicalSets ==
    {S \in SUBSET (1..NumRequiredSections) :
        \/ Cardinality(S) >= NumRequiredSections - MaxMissing
        \/ Cardinality(S) <= MaxPresent}

SectionLists == {CanonicalSections(S) \o x : S \in CanonicalSets, x \in ExtraSections}

\* new DocumentValidator({strict})
ConstructValidator ==
    /\ vPhase = "new"
    /\ \E strict \in BOOLEAN : vStrict' = strict
    /\ vPhase' = "ready"
    /\ UNCHANGED <<vDoc, vResult>>
    /\ UNCHANGED OutsideValidator

\* validator.validate(recognized)
Validate ==
    /\ vPhase = "ready"
    /\ \E p \in Profiles, sl \in SectionLists :
          LET doc == [metadata |-> p.metadata, history |-> p.history,
                      sections |-> sl, images |-> p.images]
          IN  /\ vDoc' = doc
              /\ vResult' = validate(doc, vStrict)
    /\ vPhase' = "done"
    /\ UNCHANGED vStrict
    /\ UNCHANGED OutsideValidator

ValInit == TblInit

ValNext == ConstructValidator \/ Validate

SpecValidate == ValInit /\ [][ValNext]_vars

-----------------------------------------------------------------------------
(* Properties of the validator *)

\* the required sections no titled level-1 section of the document matches
Unmatched(doc) ==
    {i \in 1..NumRequiredSections :
        \A k \in 1..Len(doc.sections) :
            \/ doc.sections[k].level # 1
            \/ doc.sections[k].title = <<>>
            \/ ~PatternTest(i, doc.sections[k].title)}

WithCode(issues, code) == SelectSeq(issues, LAMBDA e : e.code = code)

Range(f) == {f[i] : i \in DOMAIN f}

\* C5: in strict mode, for a document with level-1 sections that leaves a
\* non-empty set M of the ten required sections unmatched, validate returns
\* valid:false and exactly one SECTIONS_REQUIRED_MISSING error, which names
\* exactly the sections of M, each once.
C5_StrictNamesMissing ==
    (/\ vPhase = "done" /\ vStrict
     /\ \E k \in 1..Len(vDoc.sections) : vDoc.sections[k].level = 1
     /\ Unmatched(vDoc) # {}) =>
        LET e == WithCode(vResult.errors, "SECTIONS_REQUIRED_MISSING")
        IN  /\ ~vResult.valid
            /\ Len(e) = 1
            /\ Range(e[1].info) = Unmatched(vDoc)
            /\ Len(e[1].info) = Cardinality(Unmatched(vDoc))

\* strict validation of an otherwise complete document reported three
\* missing sections, one of them only present as a level-2 heading
C5_ThreeMissing ==
    /\ vPhase = "done" /\ vStrict
    /\ Len(vResult.errors) = 1
    /\ vResult.errors[1].code = "SECTIONS_REQUIRED_MISSING"
    /\ Len(vResult.errors[1].info) = 3
    /\ \E k \in 1..Len(vDoc.sections) :
          vDoc.sections[k].level = 2 /\ 7 \in Unmatched(vDoc)

OtherwiseComplete(doc) ==
    /\ doc.metadata = CompleteMetadata
    /\ doc.history = <<CompleteEntry>>
    /\ doc.images = <<>>

\* C6: in non-strict mode, validate on an otherwise complete document that
\* lacks some of the ten required sections returns valid:true and reports
\* the missing sections through warnings.
C6_NonStrictWarnsMissing ==
    (/\ vPhase = "done" /\ ~vStrict
     /\ OtherwiseComplete(vDoc)
     /\ Unmatched(vDoc) # {}) =>
        /\ vResult.valid
        /\ \E k \in 1..Len(vResult.warnings) :
              /\ vResult.warnings[k].code \in {"SECTIONS_REQUIRED_MISSING", "SECTIONS_MISSING"}
              /\ Range(vResult.warnings[k].info) = Unmatched(vDoc)

-----------------------------------------------------------------------------
(* ReverseConverter.  this.warnings names an array; a result carries the   *)
(* array itself, not a copy.  convert() runs to its await, is suspended,   *)
(* and resumes in the order of the awaits.                                 *)

AllCanonical == 1..NumRequiredSections

FullSections ==
    CanonicalSections(AllCanonical) \o <<Section(11, <<"2.1", " ", "x">>, 2, 2)>>

CompleteDoc ==
    [metadata |-> CompleteMetadata, history |-> <<CompleteEntry>>,
     sections |-> FullSections, images |-> <<>>]

EmptyImage == [filename |-> <<"image1.png">>, contentType |-> <<"image/png">>, size |-> 0]

\* the inputs of convert: a path without file, or a DOCX read as a document
ConvertInputs ==
    {[exists |-> FALSE, doc |-> NoDoc],
     [exists |-> TRUE, doc |-> CompleteDoc],
     [exists |-> TRUE,
      doc |-> [CompleteDoc EXCEPT !.metadata.consultant.email = <<>>]],
     [exists |-> TRUE, doc |-> [CompleteDoc EXCEPT !.images = <<EmptyImage>>]],
     [exists |-> TRUE,
      doc |-> [CompleteDoc EXCEPT !.sections = CanonicalSections({1, 2}),
                                  !.history = <<>>]]}

NoOutcome ==
    [success |-> FALSE, warnings |-> 0, images |-> <<>>, validation |-> NoResult,
     error |-> "none", stack |-> FALSE, markdown |-> FALSE]

\* constructor: this.warnings = []
NewConverter ==
    /\ Len(convs) < MaxConverters
    /\ \E strict \in BOOLEAN :
          convs' = Append(convs, [strict |-> strict, shared |-> TRUE,
                                  warnings |-> Len(heap) + 1])
    /\ heap' = Append(heap, <<>>)
    /\ UNCHANGED calls
    /\ UNCHANGED OutsideConverter

\* convert(input) up to the await: this.warnings = [], reader.read(input)
ConvertCall ==
    /\ Len(calls) < MaxCalls
    /\ \E c \in 1..Len(convs), input \in ConvertInputs :
          /\ convs[c].shared
          /\ convs' = [convs EXCEPT ![c].warnings = Len(heap) + 1]
          /\ calls' = Append(calls, [conv |-> c, input |-> input, pc |-> "reading",
                                     result |-> NoOutcome])
    /\ heap' = Append(heap, <<>>)
    /\ UNCHANGED OutsideConverter

\* reverse(input, options): a converter of its own, which no caller gets
\* hold of, then convert(input)
Reverse ==
    /\ Len(convs) < MaxConverters
    /\ Len(calls) < MaxCalls
    /\ \E strict \in BOOLEAN, input \in ConvertInputs :
          /\ convs' = Append(convs, [strict |-> strict, shared |-> FALSE,
                                  warnings |-> Len(heap) + 2])
          /\ calls' = Append(calls, [conv |-> Len(convs) + 1, input |-> input,
                                     pc |-> "reading", result |-> NoOutcome])
    /\ heap' = heap \o <<<<>>, <<>>>>
    /\ UNCHANGED OutsideConverter

\* the rest of convert for a call whose read threw: the catch block
ConvertCatch(k) ==
    /\ calls' = [calls EXCEPT ![k].pc = "done",
                              ![k].result = [NoOutcome EXCEPT
                                  !.warnings = convs[calls[k].conv].warnings,
                                  !.error = "loadZip", !.stack = TRUE]]
    /\ UNCHANGED <<heap, convs>>

\* the rest of convert for a call whose read returned: recognize, validate,
\* push the warnings, throw in strict mode or push the errors, build, return
ConvertFinish(k) ==
    LET c == convs[calls[k].conv]
        doc == calls[k].input.doc
        validation == validate(doc, c.strict)
        a == c.warnings
    IN  IF ~validation.valid /\ c.strict
        THEN /\ heap' = [heap EXCEPT ![a] = @ \o validation.warnings]
             /\ calls' = [calls EXCEPT ![k].pc = "done",
                            ![k].result = [NoOutcome EXCEPT
                                  !.warnings = a, !.validation = validation,
                                  !.error = "validation", !.stack = TRUE]]
             /\ UNCHANGED convs
        ELSE /\ heap' = [heap EXCEPT ![a] = @ \o validation.warnings \o validation.errors]
             /\ calls' = [calls EXCEPT ![k].pc = "done",
                            ![k].result = [NoOutcome EXCEPT
                                  !.success = TRUE, !.warnings = a,
                                  !.images = doc.images, !.validation = validation,
                                  !.markdown = TRUE]]
             /\ UNCHANGED convs

\* the continuation of the oldest suspended call runs
ConvertResume ==
    /\ \E k \in 1..Len(calls) :
          /\ calls[k].pc = "reading"
          /\ \A j \in 1..(k - 1) : calls[j].pc = "done"
          /\ IF calls[k].input.exists THEN ConvertFinish(k) ELSE ConvertCatch(k)
    /\ UNCHANGED OutsideConverter

ConvInit == TblInit

ConvNext == NewConverter \/ ConvertCall \/ Reverse \/ ConvertResume

SpecConvert == ConvInit /\ [][ConvNext]_vars

-----------------------------------------------------------------------------
(* Properties of the converter *)

\* the warnings convert collects for one input on its own
OwnWarnings(input, strict) ==
    IF ~input.exists THEN <<>>
    ELSE LET validation == validate(input.doc, strict)
         IN  IF strict THEN validation.warnings
             ELSE validation.warnings \o validation.errors

\* C3: whatever conversions are in flight, on separate converters or on the
\* same one, the warnings list of each result holds exactly the warnings of
\* that conversion's own input.
C3_WarningsAreOwn ==
    \A k \in 1..Len(calls) :
        calls[k].pc = "done" =>
            heap[calls[k].result.warnings]
                = OwnWarnings(calls[k].input, convs[calls[k].conv].strict)

HasEmptyImage(images) == \E i \in 1..Len(images) : images[i].size = 0

\* C7: an image without data is a hard error in both modes: validation
\* reports IMAGE_EMPTY as an error with valid:false, and no conversion of a
\* document holding such an image returns success with the image accepted.
C7_EmptyImageNeverAccepted ==
    \A k \in 1..Len(calls) :
        (calls[k].pc = "done" /\ calls[k].input.exists
            /\ HasEmptyImage(calls[k].input.doc.images)) =>
                /\ ~calls[k].result.validation.valid
                /\ WithCode(calls[k].result.validation.errors, "IMAGE_EMPTY") # <<>>
                /\ ~(calls[k].result.success /\ HasEmptyImage(calls[k].result.images))

-----------------------------------------------------------------------------
(* Forward build and packaging.  A relationship id "rIdN" is the number N. *)
(* A reference of document.xml is the attribute (r:id or r:embed), its     *)
(* value, and the resource the builder meant, which no rewriting sees.     *)

FirstImageId == 10         \* let imageIdCounter = 10
FirstHyperlinkId == 100    \* let hyperlinkIdCounter = 100
FirstFreeRelId == 9        \* manager.nextId = 9

RId(n) == [kind |-> "rId", n |-> n]
Placeholder(n) == [kind |-> "__IMG_PLACEHOLDER__", n |-> n]

Ref(attr, value, type, target) ==
    [attr |-> attr, value |-> value, type |-> type, target |-> target]

\* position of the entry with this key in a Map kept as a sequence, or 0
IndexOf(map, key) ==
    IF \E i \in 1..Len(map) : map[i].key = key
    THEN CHOOSE i \in 1..Len(map) : map[i].key = key
    ELSE 0

\* addHyperlink without the lookup of the Map: a fresh id at every call
Fresh_addHyperlink(hyperlinks, url) ==
    [rId |-> FirstHyperlinkId + Len(hyperlinks),
     hyperlinks |-> Append(hyperlinks,
                          [key |-> url, rId |-> FirstHyperlinkId + Len(hyperlinks)])]

\* createAssemblyContext.addHyperlink: the id and the Map afterwards
ctx_addHyperlink(hyperlinks, url) ==
    IF IndexOf(hyperlinks, url) # 0
    THEN [rId |-> hyperlinks[IndexOf(hyperlinks, url)].rId, hyperlinks |-> hyperlinks]
    ELSE [rId |-> FirstHyperlinkId + Len(hyperlinks),
          hyperlinks |-> Append(hyperlinks,
                               [key |-> url, rId |-> FirstHyperlinkId + Len(hyperlinks)])]

\* createAssemblyContext.addImage: null for a missing file, else a fresh
\* descriptor with the next id, pushed onto images
ctx_addImage(images, path) ==
    IF path \notin files
    THEN [found |-> FALSE, rId |-> 0, index |-> 0, images |-> images]
    ELSE [found |-> TRUE, rId |-> FirstImageId + Len(images), index |-> Len(images) + 1,
          images |-> Append(images, [sourcePath |-> path,
                                     rId |-> FirstImageId + Len(images)])]

\* content-builder link: context.addHyperlink(url), r:id in the run
BuildLink ==
    /\ ~pkg.written
    /\ ~genResult.ended
    /\ Len(docRefs) < MaxRefs
    /\ \E url \in Urls :
          LET r == ctx_addHyperlink(ctxHyperlinks, url)
          IN  /\ ctxHyperlinks' = r.hyperlinks
              /\ docRefs' = Append(docRefs, Ref("r:id", RId(r.rId), "hyperlink", url))
    /\ UNCHANGED <<files, ctxImages, bcImages, pkg, genResult>>
    /\ UNCHANGED OutsideBuild

\* buildImageParagraph with the context generate() passes: the assembly
\* context itself; a placeholder paragraph without reference if null
BuildImageParagraph ==
    /\ ~pkg.written
    /\ ~genResult.ended
    /\ Len(docRefs) < MaxRefs
    /\ \E path \in ImagePaths :
          LET r == ctx_addImage(ctxImages, path)
          IN  /\ ctxImages' = r.images
              /\ docRefs' = IF r.found
                            THEN Append(docRefs, Ref("r:embed", RId(r.rId), "image", r.index))
                            ELSE docRefs
    /\ UNCHANGED <<files, ctxHyperlinks, bcImages, pkg, genResult>>
    /\ UNCHANGED OutsideBuild

\* buildImageParagraph with a context of createBuildContext whose onImage
\* is the assembly context's addImage: a known cleanPath is answered from
\* the Map
BuildContextImageParagraph ==
    /\ ~pkg.written
    /\ ~genResult.ended
    /\ Len(docRefs) < MaxRefs
    /\ \E path \in ImagePaths :
          IF IndexOf(bcImages, path) # 0
          THEN LET d == bcImages[IndexOf(bcImages, path)]
               IN  /\ docRefs' = Append(docRefs, Ref("r:embed", RId(d.rId), "image", d.index))
                   /\ UNCHANGED <<ctxImages, bcImages>>
          ELSE LET r == ctx_addImage(ctxImages, path)
               IN  /\ ctxImages' = r.images
                   /\ bcImages' = IF r.found
                                  THEN Append(bcImages, [key |-> path, rId |-> r.rId,
                                                         index |-> r.index])
                                  ELSE bcImages
                   /\ docRefs' = IF r.found
                                 THEN Append(docRefs, Ref("r:embed", RId(r.rId), "image", r.index))
                                 ELSE docRefs
    /\ UNCHANGED <<files, ctxHyperlinks, pkg, genResult>>
    /\ UNCHANGED OutsideBuild

\* the environment removes an image file while the build is under way
RemoveFile ==
    /\ ~pkg.written
    /\ ~genResult.ended
    /\ \E path \in files : files' = files \ {path}
    /\ UNCHANGED <<ctxHyperlinks, ctxImages, bcImages, docRefs, pkg, genResult>>
    /\ UNCHANGED OutsideBuild

\* RelationshipsManager.addHyperlink / addImage on a manager whose
\* relationships beyond the eight base ones are rels
rels_add(rels, type, target) ==
    IF \E i \in 1..Len(rels) : rels[i].type = type /\ rels[i].target = target
    THEN [id |-> rels[CHOOSE i \in 1..Len(rels) :
                         rels[i].type = type /\ rels[i].target = target].id,
          rels |-> rels]
    ELSE [id |-> FirstFreeRelId + Len(rels),
          rels |-> Append(rels, [id |-> FirstFreeRelId + Len(rels),
                                 type |-> type, target |-> target])]

RECURSIVE AddHyperlinks(_, _)
\* step 3 of assembleDocx: every url of the Map, in order
AddHyperlinks(rels, hyperlinks) ==
    IF hyperlinks = <<>> THEN rels
    ELSE AddHyperlinks(rels_add(rels, "hyperlink", Head(hyperlinks).key).rels,
                       Tail(hyperlinks))

RECURSIVE AddImages(_, _, _)
\* step 4 of assembleDocx: every descriptor whose file still exists is
\* copied as image<counter> and given a relationship; the others are skipped
AddImages(acc, images, k) ==
    IF k > Len(images) THEN acc
    ELSE IF images[k].sourcePath \notin files THEN AddImages(acc, images, k + 1)
    ELSE LET name == acc.counter
             r == rels_add(acc.rels, "image", name)
         IN  AddImages([rels |-> r.rels,
                        counter |-> acc.counter + 1,
                        media |-> Append(acc.media, [name |-> name, index |-> k]),
                        mapping |-> Append(acc.mapping,
                                           [oldRId |-> images[k].rId, newRId |-> r.id])],
                       images, k + 1)

\* finalDocumentXml.replace(new RegExp(attr="from", 'g'), attr="to")
ReplaceAll(refs, attr, from, to) ==
    [i \in 1..Len(refs) |->
        IF refs[i].attr = attr /\ refs[i].value = from
        THEN [refs[i] EXCEPT !.value = to] ELSE refs[i]]

RECURSIVE RewriteHyperlinks(_, _, _)
\* step 5, hyperlinks: temporary id to final id, one url after the other
RewriteHyperlinks(refs, hyperlinks, rels) ==
    IF hyperlinks = <<>> THEN refs
    ELSE RewriteHyperlinks(
             ReplaceAll(refs, "r:id", RId(Head(hyperlinks).rId),
                        RId(rels_add(rels, "hyperlink", Head(hyperlinks).key).id)),
             Tail(hyperlinks), rels)

RECURSIVE ToPlaceholders(_, _)
\* step 5, images, first pass: old id to its placeholder
ToPlaceholders(refs, mapping) ==
    IF mapping = <<>> THEN refs
    ELSE ToPlaceholders(ReplaceAll(refs, "r:embed", RId(Head(mapping).oldRId),
                                   Placeholder(Head(mapping).oldRId)),
                        Tail(mapping))

RECURSIVE FromPlaceholders(_, _)
\* step 5, images, second pass: placeholder to final id
FromPlaceholders(refs, mapping) ==
    IF mapping = <<>> THEN refs
    ELSE FromPlaceholders(ReplaceAll(refs, "r:embed", Placeholder(Head(mapping).oldRId),
                                     RId(Head(mapping).newRId)),
                          Tail(mapping))

\* the media folder of an unpacked template: the numbers n of its files
\* image<n>.png; the images of a build are .png files as well
TemplateMedia ==
    {T \in SUBSET (1..(MaxTemplateImages + 1)) : Cardinality(T) <= MaxTemplateImages}

\* getExistingImages(mediaDir).length: the image files are counted, their
\* names are not read
getExistingImages(template) == Cardinality(template)

\* the calls of assembleDocx that can throw, in the order they are made;
\* mkdtempSync comes before the try block
AssemblySteps ==
    <<"mkdtempSync", "unpackTemplate", "copyImageToMedia", "writeDocument",
      "writeRelationships", "updateContentTypes", "packToDocx">>

\* the cleanup if fs.rmSync stood at the end of the try block
OnReturn_rmSync(threw) == threw = "none"

\* finally { fs.rmSync(tempDir, ...) }: runs whenever the try block was
\* entered, on return and on throw
finally_rmSync(threw) == threw # "mkdtempSync"

\* generate if the exception of a step were not caught
Uncaught_generate_return(threw) ==
    [ended |-> TRUE, rejected |-> threw # "none", success |-> threw = "none",
     error |-> "none", stack |-> FALSE,
     outputPath |-> IF threw = "none" THEN "out.docx" ELSE "none"]

\* what generate returns: the result of its try block, or of its catch
\* block for the exception threw
generate_return(threw) ==
    IF threw = "none"
    THEN [ended |-> TRUE, rejected |-> FALSE, success |-> TRUE, error |-> "none",
          stack |-> FALSE, outputPath |-> "out.docx"]
    ELSE [ended |-> TRUE, rejected |-> FALSE, success |-> FALSE, error |-> threw,
          stack |-> TRUE, outputPath |-> "none"]

\* generate throws before it calls assembleDocx: reading or parsing the
\* input (nothing is built yet), building document.xml, the template check
GenerateThrows ==
    /\ ~pkg.written
    /\ ~genResult.ended
    /\ \E threw \in {"readFileSync", "parseDocument", "buildDocument", "templatePath"} :
          /\ threw \in {"readFileSync", "parseDocument"} =>
                docRefs = <<>> /\ ctxImages = <<>>
          /\ genResult' = generate_return(threw)
    /\ UNCHANGED <<files, ctxHyperlinks, ctxImages, bcImages, docRefs, pkg>>
    /\ UNCHANGED OutsideBuild

\* assembleDocx and the return of generate: temporary directory,
\* relationships, media, rewritten document.xml, package; any of the steps
\* may throw
AssembleDocx ==
    /\ ~pkg.written
    /\ ~genResult.ended
    /\ \E template \in TemplateMedia, step \in 0..Len(AssemblySteps) :
          LET hrels == AddHyperlinks(<<>>, ctxHyperlinks)
              added == AddImages([rels |-> hrels,
                                  counter |-> getExistingImages(template) + 1,
                                  media |-> <<>>, mapping |-> <<>>], ctxImages, 1)
              linked == RewriteHyperlinks(docRefs, ctxHyperlinks, hrels)
              refs == FromPlaceholders(ToPlaceholders(linked, added.mapping),
                                       added.mapping)
              threw == IF step = 0 THEN "none" ELSE AssemblySteps[step]
              tempDir == threw # "mkdtempSync" /\ ~finally_rmSync(threw)
          IN  /\ threw \in {"copyImageToMedia", "updateContentTypes"} => added.media # <<>>
              /\ pkg' = IF threw = "none"
                        THEN [written |-> TRUE, rels |-> added.rels, refs |-> refs,
                              media |-> added.media, template |-> template,
                              threw |-> threw, tempDir |-> tempDir]
                        ELSE [NoPackage EXCEPT !.threw = threw, !.tempDir = tempDir]
              /\ genResult' = generate_return(threw)
    /\ UNCHANGED <<files, ctxHyperlinks, ctxImages, bcImages, docRefs>>
    /\ UNCHANGED OutsideBuild

PackInit == TblInit

PackNext ==
    \/ BuildLink
    \/ BuildImageParagraph
    \/ BuildContextImageParagraph
    \/ RemoveFile
    \/ GenerateThrows
    \/ AssembleDocx

SpecPack == PackInit /\ [][PackNext]_vars

-----------------------------------------------------------------------------
(* Properties of the forward build *)

\* the relationship of the package a reference was built for
IsRelOf(rel, ref) ==
    /\ rel.type = ref.type
    /\ IF ref.type = "hyperlink" THEN rel.target = ref.target
       ELSE \E m \in 1..Len(pkg.media) :
               pkg.media[m].index = ref.target /\ pkg.media[m].name = rel.target

\* C4: after packaging every r:id / r:embed of document.xml carries the
\* final id document.xml.rels gives to the URL or image it was built for,
\* and no reference carries the id of another resource.
C4_RefsCarryFinalIds ==
    pkg.written =>
        \A i \in 1..Len(pkg.refs) :
            /\ pkg.refs[i].value.kind = "rId"
            /\ \E r \in 1..Len(pkg.rels) :
                  pkg.rels[r].id = pkg.refs[i].value.n /\ IsRelOf(pkg.rels[r], pkg.refs[i])
            /\ \A r \in 1..Len(pkg.rels) :
                  pkg.rels[r].id = pkg.refs[i].value.n => IsRelOf(pkg.rels[r], pkg.refs[i])

\* C10: within one build, two registrations of the same image path return
\* the same relationship id, and one descriptor is recorded for the path.
C10_SameImageSameAllocation ==
    /\ \A i, j \in 1..Len(docRefs) :
          (/\ docRefs[i].type = "image" /\ docRefs[j].type = "image"
           /\ ctxImages[docRefs[i].target].sourcePath
                 = ctxImages[docRefs[j].target].sourcePath)
             => docRefs[i].value = docRefs[j].value
    /\ \A a, b \in 1..Len(ctxImages) :
          ctxImages[a].sourcePath = ctxImages[b].sourcePath => a = b

\* C24: a copied image never takes the name of a media file the unpacked
\* template holds, and no two images copied in one assembly get the same
\* name.
C24_FreshMediaNames ==
    pkg.written =>
        /\ \A m \in 1..Len(pkg.media) : pkg.media[m].name \notin pkg.template
        /\ \A a, b \in 1..Len(pkg.media) :
              pkg.media[a].name = pkg.media[b].name => a = b

\* the entries of document.xml.rels that define this id
RelsWithId(rels, n) == {r \in 1..Len(rels) : rels[r].id = n}

\* C28: in every written package each id referenced from document.xml is
\* defined by exactly one entry of document.xml.rels, of the type and target
\* of the referenced URL or image, and the ids of document.xml.rels are
\* pairwise distinct, also when a registered image is no longer found at
\* assembly.
C28_EveryRefDefinedOnce ==
    pkg.written =>
        /\ \A i \in 1..Len(pkg.refs) :
              /\ pkg.refs[i].value.kind = "rId"
              /\ Cardinality(RelsWithId(pkg.rels, pkg.refs[i].value.n)) = 1
              /\ \A r \in RelsWithId(pkg.rels, pkg.refs[i].value.n) :
                    IsRelOf(pkg.rels[r], pkg.refs[i])
        /\ \A a, b \in 1..Len(pkg.rels) : pkg.rels[a].id = pkg.rels[b].id => a = b

\* the hyperlink references among refs
HyperlinkRefs(refs) == {i \in 1..Len(refs) : refs[i].type = "hyperlink"}

-----------------------------------------------------------------------------
(* SectionRecognizer.recognize over the element list.  A heading text is   *)
(* a sequence of tokens: a number with its dot, a blank, a word or phrase, *)
(* a punctuation mark.                                                     *)

\* what the sections never touch
OutsideSections == <<tblVars, valVars, convVars, packVars, ftVars, diffVars, xmlVars, scnVars>>

Paragraph(isHeading, headingLevel, listLevel, text) ==
    [type |-> "paragraph", isHeading |-> isHeading, headingLevel |-> headingLevel,
     listLevel |-> listLevel, text |-> text, rows |-> <<>>]

TableElement(rows) ==
    [type |-> "table", isHeading |-> FALSE, headingLevel |-> 0,
     listLevel |-> -1, text |-> <<>>, rows |-> rows]

ContentItem(type, level, text, tableType) ==
    [type |-> type, level |-> level, text |-> text, tableType |-> tableType]

\* KNOWN_SECTIONS[i].pattern.test(text)
KnownPatternTest(i, text) ==
    /\ text # <<>>
    /\ text[1] = ToString(i) \o "."
    /\ LET rest == TrimStart(Tail(text))
       IN  /\ rest # <<>>
           /\ LowerTitleTok(rest[1]) # "glossarij"
           /\ i \in BeginsWith(LowerTitleTok(rest[1]))
           /\ i = 6 => \E k \in 1..Len(rest) : ContainsPDn(LowerTitleTok(rest[k]))

\* KNOWN_SECTIONS[i].id
KnownId(i) ==
    CASE i = 1 -> "terms"
      [] i = 2 -> "background"
      [] i = 3 -> "changes"
      [] i = 4 -> "it-changes"
      [] i = 5 -> "integrations"
      [] i = 6 -> "pdn"
      [] i = 7 -> "input-forms"
      [] i = 8 -> "output-forms"
      [] i = 9 -> "roles"
      [] OTHER -> "appendix"

\* the index of the first known section whose pattern matches, or 0
identifySection(text) ==
    IF \E i \in 1..NumRequiredSections : KnownPatternTest(i, text)
    THEN CHOOSE i \in 1..NumRequiredSections :
            /\ KnownPatternTest(i, text)
            /\ \A j \in 1..(i - 1) : ~KnownPatternTest(j, text)
    ELSE 0

\* one token after .replace(/[^\w\sа-яё]/gi, ''): words of unknown titles
\* are single tokens, marks and dots go
StripTok(t) ==
    CASE t \in {"!", ".", ",", ":"} -> ""
      [] IsNumberDot(t) -> SubSeq(t, 1, Len(t) - 1)
      [] t = "2.1" -> "21"
      [] OTHER -> t

RECURSIVE Substring(_, _)
\* s.substring(0, n), counted in characters
Substring(s, n) ==
    IF s = <<>> \/ n = 0 THEN <<>>
    ELSE IF Len(Head(s)) <= n
         THEN <<Head(s)>> \o Substring(Tail(s), n - Len(Head(s)))
         ELSE <<SubSeq(Head(s), 1, n)>>

\* SectionRecognizer.generateId
SectionRecognizer_generateId(text) ==
    LET lower == [i \in 1..Len(text) |-> LowerTitleTok(text[i])]
        stripped == SelectSeq([i \in 1..Len(lower) |-> StripTok(lower[i])],
                              LAMBDA t : t # "")
        spaced == CollapseWs(stripped)
        dashed == [i \in 1..Len(spaced) |-> IF spaced[i] = " " THEN "-" ELSE spaced[i]]
    IN  Substring(dashed, 30)

NoSection ==
    [id |-> <<>>, title |-> <<>>, level |-> 0, knownType |-> "null", content |-> <<>>]

createSection(text, level) ==
    LET known == identifySection(text)
    IN  [id |-> IF known # 0 THEN <<KnownId(known)>> ELSE SectionRecognizer_generateId(text),
         title |-> text, level |-> level,
         knownType |-> IF known # 0 THEN KnownId(known) ELSE "null",
         content |-> <<>>]

isEmptySectionText(text) ==
    \E i \in 1..Len(text) :
        LowerTitleTok(text[i]) \in {"ne primenim", "ne trebuetsya", "otsutstvuyut",
                                    "net izmenenij", "razdel ne primenim"}

processParagraph(p) ==
    IF p.listLevel >= 0 THEN ContentItem("list-item", p.listLevel, p.text, "none")
    ELSE IF isEmptySectionText(p.text) THEN ContentItem("empty-section", 0, p.text, "none")
    ELSE ContentItem("paragraph", 0, p.text, "none")

processElement(element) ==
    IF element.type = "paragraph" THEN processParagraph(element)
    ELSE ContentItem("table", 0, <<>>, SectionRecognizer_processTable(element.rows).tableType)

\* one turn of the loop of recognize
RecognizeStep(st, element) ==
    IF element.type = "paragraph" /\ element.isHeading /\ element.headingLevel > 0
    THEN IF element.headingLevel = 1
         THEN IF st.currentSection # NoSection
              THEN [sections |-> Append(st.sections,
                                        [st.currentSection EXCEPT !.content = st.contentBuffer]),
                    currentSection |-> createSection(Trim(element.text), 1),
                    contentBuffer |-> <<>>]
              ELSE [st EXCEPT !.currentSection = createSection(Trim(element.text), 1)]
         ELSE [st EXCEPT !.contentBuffer =
                  Append(@, ContentItem("heading", element.headingLevel,
                                        Trim(element.text), "none"))]
    ELSE IF st.currentSection # NoSection
         THEN [st EXCEPT !.contentBuffer = Append(@, processElement(element))]
         ELSE st

RECURSIVE RecognizeLoop(_, _)
RecognizeLoop(st, elems) ==
    IF elems = <<>> THEN st
    ELSE RecognizeLoop(RecognizeStep(st, Head(elems)), Tail(elems))

\* recognize if the section open at the end of the list were not pushed
NoFinalPush_recognize(elems) ==
    RecognizeLoop([sections |-> <<>>, currentSection |-> NoSection,
                   contentBuffer |-> <<>>], elems).sections

\* SectionRecognizer.recognize
SectionRecognizer_recognize(elems) ==
    LET st == RecognizeLoop([sections |-> <<>>, currentSection |-> NoSection,
                             contentBuffer |-> <<>>], elems)
    IN  IF st.currentSection # NoSection
        THEN Append(st.sections, [st.currentSection EXCEPT !.content = st.contentBuffer])
        ELSE st.sections

\* the paragraphs and tables a body is made of
BodyElements ==
    {Paragraph(TRUE, 1, -1, <<"1.", " ", "Terminy i opredeleniya">>),
     Paragraph(TRUE, 1, -1, <<" ", "1.", "Terminy i opredeleniya", " ">>),
     Paragraph(TRUE, 1, -1, <<"Prilozheniya">>),
     Paragraph(TRUE, 1, -1, <<"PRILOZHENIYA", "!">>),
     Paragraph(TRUE, 1, -1, <<"opisanie", " ", "izmenenij", " ", "sostava", " ",
                              "obrabatyvaemykh", " ", "PDn">>),
     Paragraph(TRUE, 2, -1, <<"2.1", " ", "x">>),
     Paragraph(TRUE, 3, -1, <<"x", " ">>),
     Paragraph(TRUE, 0, -1, <<"x">>),
     Paragraph(FALSE, 0, -1, <<"ne trebuetsya">>),
     Paragraph(FALSE, 0, 0, <<"x">>),
     TableElement(<<<<<<"Termin">>, <<"Opredelenie">>>>>>)}

\* ElementExtractor hands over one more element of the body
ExtractElement ==
    /\ ~secResult.done
    /\ Len(elements) < MaxElements
    /\ \E e \in BodyElements : elements' = Append(elements, e)
    /\ UNCHANGED secResult
    /\ UNCHANGED OutsideSections

\* sectionRecognizer.recognize(contentElements, ast)
SectionRecognize ==
    /\ ~secResult.done
    /\ secResult' = [done |-> TRUE, list |-> SectionRecognizer_recognize(elements)]
    /\ UNCHANGED elements
    /\ UNCHANGED OutsideSections

SecInit == TblInit

SecNext ==
    \/ ExtractElement
    \/ SectionRecognize

SpecSections == SecInit /\ [][SecNext]_vars

-----------------------------------------------------------------------------
(* Properties of the sections *)

IsHeadingOfLevel(e, levels) ==
    e.type = "paragraph" /\ e.isHeading /\ e.headingLevel \in levels

\* C12: within one recognized document no two Sections have the same id.
C12_SectionIdsUnique ==
    secResult.done =>
        \A a, b \in 1..Len(secResult.list) :
            secResult.list[a].id = secResult.list[b].id => a = b

\* C13: recognize returns exactly one top-level Section for each level-1
\* heading of the element list, in the order of the headings.
C13_OneSectionPerLevel1Heading ==
    secResult.done =>
        LET hs == SelectSeq(elements, LAMBDA e : IsHeadingOfLevel(e, {1}))
        IN  /\ Len(secResult.list) = Len(hs)
            /\ \A k \in 1..Len(hs) :
                  /\ secResult.list[k].title = Trim(hs[k].text)
                  /\ secResult.list[k].level = 1

\* a body with a subheading first, then two different level-1 headings
\* with content between them, was recognized
C13_TwoSectionsRecognized ==
    /\ secResult.done
    /\ Len(elements) = 4
    /\ IsHeadingOfLevel(elements[1], {2, 3})
    /\ IsHeadingOfLevel(elements[2], {1})
    /\ ~IsHeadingOfLevel(elements[3], {1, 2, 3})
    /\ IsHeadingOfLevel(elements[4], {1})
    /\ elements[2].text # elements[4].text
    /\ Len(secResult.list) = 2

\* the heading items of the content of all sections, in order
RECURSIVE HeadingItems(_)
HeadingItems(list) ==
    IF list = <<>> THEN <<>>
    ELSE SelectSeq(Head(list).content, LAMBDA c : c.type = "heading")
            \o HeadingItems(Tail(list))

\* C14: every heading of level 2 or deeper of the element list is recorded
\* as a heading content item with its level and text, and no Section is made
\* for it.
C14_LowerHeadingsRecorded ==
    secResult.done =>
        LET hs == SelectSeq(elements, LAMBDA e : IsHeadingOfLevel(e, {2, 3}))
        IN  /\ HeadingItems(secResult.list)
                  = [k \in 1..Len(hs) |->
                        ContentItem("heading", hs[k].headingLevel, Trim(hs[k].text), "none")]
            /\ \A k \in 1..Len(secResult.list) : secResult.list[k].level = 1

\* positions of the level-1 headings of the element list, ascending
RECURSIVE Level1Positions(_, _)
Level1Positions(elems, from) ==
    IF from > Len(elems) THEN <<>>
    ELSE IF IsHeadingOfLevel(elems[from], {1})
         THEN <<from>> \o Level1Positions(elems, from + 1)
         ELSE Level1Positions(elems, from + 1)

\* the content item an element between two level-1 headings is recorded as
RecordedAs(e) ==
    IF IsHeadingOfLevel(e, {2, 3})
    THEN ContentItem("heading", e.headingLevel, Trim(e.text), "none")
    ELSE processElement(e)

\* C27: the content of the k-th Section is exactly the elements after the
\* k-th level-1 heading and before the next one (or the end), in order; no
\* element before the first level-1 heading is in any Section.
C27_ContentBetweenLevel1Headings ==
    secResult.done =>
        LET pos == Level1Positions(elements, 1)
        IN  /\ Len(secResult.list) = Len(pos)
            /\ \A k \in 1..Len(pos) :
                  LET first == pos[k] + 1
                      last == IF k < Len(pos) THEN pos[k + 1] - 1 ELSE Len(elements)
                  IN  secResult.list[k].content
                          = [i \in 1..(last - first + 1) |-> RecordedAs(elements[first + i - 1])]

-----------------------------------------------------------------------------
(* The two conversion entry points.  A run is one forward generation or    *)
(* reverse conversions; the two share no state.                            *)

EntryInit == TblInit

EntryNext ==
    \/ BuildIdle /\ ConvNext
    \/ ConvIdle /\ PackNext

SpecEntryPoints == EntryInit /\ [][EntryNext]_vars

\* C15: the temporary directory of an assembly no longer exists once the
\* assembleDocx call has ended, by return or by an exception of any step
\* after the directory was created.
C15_TempDirRemoved ==
    (pkg.written \/ pkg.threw # "none") => ~pkg.tempDir

\* packToDocx threw after the template was unpacked into the directory and
\* a document with references was written there
C15_ThrewWhilePacking ==
    /\ pkg.threw = "packToDocx"
    /\ docRefs # <<>>
    /\ genResult.ended

\* C16: generate and convert never reject; every exception of a step is
\* returned as a result with success:false, the message and the stack, and
\* without output path or Markdown.
C16_ExceptionsBecomeResults ==
    /\ ~genResult.rejected
    /\ genResult.ended =>
          /\ genResult.success <=> pkg.written
          /\ ~genResult.success =>
                /\ genResult.error # "none"
                /\ genResult.stack
                /\ genResult.outputPath = "none"
    /\ pkg.threw # "none" => genResult.ended /\ ~genResult.success
    /\ \A k \in 1..Len(calls) :
          /\ calls[k].pc \in {"reading", "done"}
          /\ calls[k].pc = "done" =>
                /\ ~calls[k].input.exists => ~calls[k].result.success
                /\ ~calls[k].result.success =>
                      /\ calls[k].result.error # "none"
                      /\ calls[k].result.stack
                      /\ ~calls[k].result.markdown

\* generate ended with the exception of an assembly step as its result
C16_AssemblyExceptionReturned ==
    /\ genResult.ended
    /\ ~genResult.success
    /\ genResult.error = "writeDocument"
    /\ pkg.threw = "writeDocument"

-----------------------------------------------------------------------------
(* Properties of the validator: checks that depend on the mode *)

\* how many issues with this code the list holds
CountCode(issues, code) == Len(WithCode(issues, code))

\* C17: an empty required metadata field (shortName, organization,
\* createdDate, consultant.name) and an absent or empty history are reported
\* as errors exactly in strict mode and as warnings exactly in non-strict
\* mode, where they leave valid as it is.
C17_ModeDependentChecks ==
    vPhase = "done" =>
        LET md == vDoc.metadata
            into == IF vStrict THEN vResult.errors ELSE vResult.warnings
            other == IF vStrict THEN vResult.warnings ELSE vResult.errors
            nFields == Cardinality({f \in {"shortName", "organization", "createdDate"} :
                                       Blank(md[f])})
            nName == IF /\ md.consultant.present
                        /\ (Blank(md.consultant.name) \/ md.consultant.name = <<"Neizvestno">>)
                     THEN 1 ELSE 0
            nHistory == IF vDoc.history = <<>> THEN 1 ELSE 0
        IN  /\ md.present =>
                  /\ CountCode(into, "METADATA_REQUIRED_FIELD") = nFields
                  /\ CountCode(into, "METADATA_CONSULTANT_NAME") = nName
            /\ CountCode(into, "HISTORY_MISSING") = nHistory
            /\ \A code \in {"METADATA_REQUIRED_FIELD", "METADATA_CONSULTANT_NAME",
                            "HISTORY_MISSING"} : CountCode(other, code) = 0
            /\ (~vStrict /\ md.present) => (vResult.valid <=> ~HasEmptyImage(vDoc.images))

\* non-strict validation of a document whose consultant name is blank:
\* warned, and valid
C17_BlankNameWarned ==
    /\ vPhase = "done"
    /\ ~vStrict
    /\ vDoc.metadata.consultant.present
    /\ Blank(vDoc.metadata.consultant.name)
    /\ CountCode(vResult.warnings, "METADATA_CONSULTANT_NAME") = 1
    /\ vResult.valid

\* C18: a createdDate that is present but not of the form DD.MM.YYYY is a
\* warning and no hard failure in non-strict mode, and a hard failure in
\* strict mode.
C18_DateFormatByMode ==
    (/\ vPhase = "done"
     /\ vDoc.metadata.present
     /\ vDoc.metadata.createdDate # <<>>
     /\ ~DatePatternTest(vDoc.metadata.createdDate)) =>
        IF vStrict
        THEN /\ ~vResult.valid
             /\ CountCode(vResult.errors, "METADATA_DATE_FORMAT") = 1
        ELSE /\ CountCode(vResult.warnings, "METADATA_DATE_FORMAT") = 1
             /\ CountCode(vResult.errors, "METADATA_DATE_FORMAT") = 0

-----------------------------------------------------------------------------
(* The body of a function-table directive.  A line is a sequence of        *)
(* tokens: a word of \w characters, ":", "|", a blank, or other text; two  *)
(* words never stand side by side.                                         *)

\* what the directive never touches
OutsideDirective == <<tblVars, valVars, convVars, packVars, secVars, diffVars, xmlVars, scnVars>>

\* \w+
IsWord(t) == t \in Keys \cup {"x", "API", "Raschet"}

\* content.replace(/\r\n/g, '\n').replace(/\r/g, '\n')
NormalizeNewlines(text) ==
    [i \in 1..Len(text) |-> IF text[i] \in {"CRLF", "CR"} THEN "NL" ELSE text[i]]

\* line.match(/^(\w+):\s*\|?\s*$/)
multilineMatch(line) ==
    /\ Len(line) >= 2
    /\ IsWord(line[1])
    /\ line[2] = ":"
    /\ LET rest == TrimStart(SubSeq(line, 3, Len(line)))
       IN  \/ rest = <<>>
           \/ rest[1] = "|" /\ TrimStart(Tail(rest)) = <<>>

\* line.match(/^(\w+):\s*(.+)$/)
simpleMatch(line) ==
    /\ Len(line) >= 3
    /\ IsWord(line[1])
    /\ line[2] = ":"

\* simpleMatch[2] of a line that multilineMatch refused: what follows the
\* blanks after the colon
SimpleValueOf(line) == TrimStart(SubSeq(line, 3, Len(line)))

\* result[currentKey] = currentValue.join('\n').trim(), if (currentKey)
Stored(st) ==
    IF st.currentKey = "null" THEN st.result
    ELSE [st.result EXCEPT ![st.currentKey] = Trim(Join(st.currentValue, "NL"))]

\* the loop body if a `key: value` line assigned also inside a multi-line
\* value
AlwaysAssign_ParseLine(st, line) ==
    IF multilineMatch(line)
    THEN [result |-> Stored(st), currentKey |-> line[1], currentValue |-> <<>>,
          inMultiline |-> TRUE]
    ELSE IF simpleMatch(line)
    THEN [result |-> [Stored(st) EXCEPT ![line[1]] = Trim(SimpleValueOf(line))],
          currentKey |-> "null", currentValue |-> <<>>, inMultiline |-> st.inMultiline]
    ELSE IF st.inMultiline /\ st.currentKey # "null"
    THEN [st EXCEPT !.currentValue = Append(@, line)]
    ELSE st

\* one turn of the loop of parseFunctionTableContent
ParseLine(st, line) ==
    IF multilineMatch(line)
    THEN [result |-> Stored(st), currentKey |-> line[1], currentValue |-> <<>>,
          inMultiline |-> TRUE]
    ELSE IF simpleMatch(line) /\ ~st.inMultiline
    THEN [result |-> [Stored(st) EXCEPT ![line[1]] = Trim(SimpleValueOf(line))],
          currentKey |-> "null", currentValue |-> <<>>, inMultiline |-> st.inMultiline]
    ELSE IF st.inMultiline /\ st.currentKey # "null"
    THEN [st EXCEPT !.currentValue = Append(@, line)]
    ELSE st

RECURSIVE ParseState(_, _)
\* the parser after the first n lines
ParseState(lines, n) ==
    IF n = 0
    THEN [result |-> EmptyResult, currentKey |-> "null", currentValue |-> <<>>,
          inMultiline |-> FALSE]
    ELSE ParseLine(ParseState(lines, n - 1), lines[n])

\* normalizedContent.split('\n')
LinesOf(content) == Split(NormalizeNewlines(content))

parseFunctionTableContent(content) ==
    Stored(ParseState(LinesOf(content), Len(LinesOf(content))))

\* MdBuilder.buildFunctionTable: the lines between the two ::: fences
buildFunctionTable_body(e) ==
    <<<<"function", ":", " ">> \o e.func>>
    \o (IF e.task # <<>> THEN <<<<"task", ":", " ">> \o e.task>> ELSE <<>>)
    \o (IF e.taskUrl # <<>> THEN <<<<"taskUrl", ":", " ">> \o e.taskUrl>> ELSE <<>>)
    \o <<<<"scenario", ":", " ", "|">>>>
    \o [i \in 1..Len(Split(e.scenario)) |-> <<" ", " ">> \o Split(e.scenario)[i]]

\* lines.join('\n') of the body
BodyText(lines) == Flatten([i \in 1..Len(lines) |->
                              IF i = 1 THEN lines[i] ELSE <<"NL">> \o lines[i]])

\* second cells of the three rows of a function table in a DOCX
FunctionCells == {<<"Raschet">>, <<>>, <<"Raschet", ":", " ", "API">>}

TaskCells == {<<>>, <<"PROJ-42">>, <<"PROJ-42", " ", "http://u">>}

ScenarioCells ==
    {<<>>, <<"x">>, <<"x", "NL", "API">>, <<"x", " ", "NL", "note", ":">>,
     <<"-", " ", "x", "NL", " ", " ", "-", " ", "API">>}

\* the lines of directive bodies written by hand
BodyLines ==
    {<<"function", ":", " ", "Raschet">>,
     <<"task", ":", " ", "PROJ-42", " ">>,
     <<"task", ":", "x">>,
     <<"scenario", ":", " ", "|">>,
     <<"scenario", ":">>,
     <<"note", ":", " ", "|", " ">>,
     <<" ", " ", "x">>,
     <<" ", " ", "task", ":", " ", "x">>,
     <<>>}

\* FunctionTableRecognizer.recognize on a table of a DOCX, then
\* MdBuilder.buildFunctionTable
EmitFunctionTable ==
    /\ ftParse.phase = "idle"
    /\ \E f \in FunctionCells, t \in TaskCells, sc \in ScenarioCells :
          LET e == FunctionTableRecognizer_recognize(
                       <<<<<<"Funktsiya">>, f>>, <<<<"N zadachi v reestre FTT">>, t>>,
                         <<<<"Stsenarij">>, sc>>>>)
          IN  /\ ftElem' = e
              /\ ftParse' = [NoParse EXCEPT !.phase = "written", !.emitted = TRUE,
                                !.content = BodyText(buildFunctionTable_body(e))]
    /\ UNCHANGED OutsideDirective

\* an author writes the body of a directive, with the line ends of their
\* editor
WriteBody ==
    /\ ftParse.phase = "idle"
    /\ \E lines \in SeqsUpTo(BodyLines, MaxLines), eol \in {"NL", "CRLF", "CR"} :
          ftParse' = [NoParse EXCEPT !.phase = "written",
                         !.content = [i \in 1..Len(BodyText(lines)) |->
                                         IF BodyText(lines)[i] = "NL" THEN eol
                                         ELSE BodyText(lines)[i]]]
    /\ UNCHANGED ftElem
    /\ UNCHANGED OutsideDirective

\* processFunctionTableDirective: parseFunctionTableContent(textContent)
ParseFunctionTable ==
    /\ ftParse.phase = "written"
    /\ ftParse' = [ftParse EXCEPT !.phase = "parsed",
                      !.result = parseFunctionTableContent(ftParse.content)]
    /\ UNCHANGED ftElem
    /\ UNCHANGED OutsideDirective

FtInit == TblInit

FtNext ==
    \/ EmitFunctionTable
    \/ WriteBody
    \/ ParseFunctionTable

SpecDirective == FtInit /\ [][FtNext]_vars

-----------------------------------------------------------------------------
(* Properties of the function-table directive *)

\* C19: line by line, a line `key:` or `key: |` stores the value being
\* accumulated and opens an accumulator for key; a line `key: value` assigns
\* key at once unless a multi-line value is being accumulated, and then it is
\* appended to that value and assigns nothing.
C19_LineByLine ==
    ftParse.phase = "parsed" =>
        LET lines == LinesOf(ftParse.content)
        IN  \A n \in 1..Len(lines) :
                LET before == ParseState(lines, n - 1)
                    after == ParseState(lines, n)
                    line == lines[n]
                IN  /\ multilineMatch(line) =>
                          /\ after.currentKey = line[1]
                          /\ after.currentValue = <<>>
                          /\ after.inMultiline
                          /\ after.result = Stored(before)
                    /\ (simpleMatch(line) /\ ~multilineMatch(line) /\ ~before.inMultiline) =>
                          /\ after.result[line[1]] = Trim(SimpleValueOf(line))
                          /\ \A k \in Keys \ {line[1]} : after.result[k] = before.result[k]
                          /\ ~after.inMultiline
                          /\ after.currentValue = <<>>
                    /\ (simpleMatch(line) /\ ~multilineMatch(line) /\ before.inMultiline) =>
                          /\ after.result = before.result
                          /\ after.currentKey = before.currentKey
                          /\ after.currentValue = Append(before.currentValue, line)

\* a body was parsed in which `task: ...` stands once before and once after
\* the line that opens the scenario: the first is assigned, the second has
\* become scenario text
C19_AssignedThenAppended ==
    /\ ftParse.phase = "parsed"
    /\ ~ftParse.emitted
    /\ LET lines == LinesOf(ftParse.content)
       IN  /\ Len(lines) = 3
           /\ lines[1] = <<"task", ":", " ", "PROJ-42", " ">>
           /\ lines[2] = <<"scenario", ":", " ", "|">>
           /\ lines[3] = <<"task", ":", "x">>
    /\ ftParse.result["task"] = <<"PROJ-42">>
    /\ ftParse.result["scenario"] = <<"task", ":", "x">>

\* C20: the body MdBuilder emits for a recognized function table parses
\* back to the recognized scenario, unchanged, and to the same function,
\* task and taskUrl.
C20_EmittedBodyParsesBack ==
    (ftParse.phase = "parsed" /\ ftParse.emitted) =>
        /\ ftParse.result["scenario"] = ftElem.scenario
        /\ ftParse.result["function"] = ftElem.func
        /\ ftParse.result["task"] = ftElem.task
        /\ ftParse.result["taskUrl"] = ftElem.taskUrl

-----------------------------------------------------------------------------
(* ReverseConverter.diff.  A document is the sequence of its lines, each   *)
(* with its line end; the empty document is the empty sequence.            *)

OutsideDiff == <<tblVars, valVars, convVars, packVars, secVars, ftVars, xmlVars, scnVars>>

\* what the XML parser never touches
OutsideXml == <<tblVars, valVars, convVars, packVars, secVars, ftVars, diffVars, scnVars>>

\* what the function-table round trip never touches
OutsideScenario == <<tblVars, valVars, convVars, packVars, secVars, ftVars, diffVars, xmlVars>>

Change(kind, count) ==
    [count |-> count, added |-> kind = "added", removed |-> kind = "removed"]

RECURSIVE LcsLen(_, _)
\* length of a longest common subsequence of lines
LcsLen(a, b) ==
    IF a = <<>> \/ b = <<>> THEN 0
    ELSE IF Head(a) = Head(b) THEN 1 + LcsLen(Tail(a), Tail(b))
    ELSE IF LcsLen(Tail(a), b) >= LcsLen(a, Tail(b)) THEN LcsLen(Tail(a), b)
    ELSE LcsLen(a, Tail(b))

RECURSIVE EditScript(_, _)
\* a shortest edit script from a to b, one entry per line, removals before
\* additions
EditScript(a, b) ==
    IF a = <<>> THEN [i \in 1..Len(b) |-> "added"]
    ELSE IF b = <<>> THEN [i \in 1..Len(a) |-> "removed"]
    ELSE IF Head(a) = Head(b) THEN <<"common">> \o EditScript(Tail(a), Tail(b))
    ELSE IF LcsLen(Tail(a), b) >= LcsLen(a, Tail(b))
         THEN <<"removed">> \o EditScript(Tail(a), b)
         ELSE <<"added">> \o EditScript(a, Tail(b))

RECURSIVE Chunks(_)
\* consecutive entries of one kind become one change object with their count
Chunks(script) ==
    IF script = <<>> THEN <<>>
    ELSE LET rest == Chunks(Tail(script))
         IN  IF rest # <<>> /\ rest[1] = Change(Head(script), rest[1].count)
             THEN <<Change(Head(script), rest[1].count + 1)>> \o Tail(rest)
             ELSE <<Change(Head(script), 1)>> \o rest

\* what the diff package may return for two documents without any line:
\* no change object, or one unchanged object of count 0, depending on the
\* installed version
EmptyDiffs == {<<>>, <<Change("common", 0)>>}

\* Diff.diffLines(original, converted): the results the package can give
diffLines(original, converted) ==
    IF original = <<>> /\ converted = <<>> THEN EmptyDiffs
    ELSE {Chunks(EditScript(original, converted))}

RECURSIVE SumCounts(_, _)
\* the loop over changes: counts of the added, or of the removed, objects
SumCounts(changes, kind) ==
    IF changes = <<>> THEN 0
    ELSE (IF (kind = "added" /\ Head(changes).added)
              \/ (kind = "removed" /\ Head(changes).removed /\ ~Head(changes).added)
          THEN Head(changes).count ELSE 0) + SumCounts(Tail(changes), kind)

\* the statistics of diff for the change objects of diffLines
statistics(changes) ==
    [identical |-> Len(changes) = 1 /\ ~changes[1].added /\ ~changes[1].removed,
     linesAdded |-> SumCounts(changes, "added"),
     linesRemoved |-> SumCounts(changes, "removed"),
     linesChanged |-> SumCounts(changes, "added") + SumCounts(changes, "removed")]

\* the lines documents are made of
DocLines == {"# T", "A", "B"}

\* converter.diff(original, converted, {stats: true})
Diff ==
    /\ ~diffCall.done
    /\ \E original, converted \in SeqsUpTo(DocLines, MaxDocLines) :
          \E changes \in diffLines(original, converted) :
              diffCall' = [done |-> TRUE, original |-> original, converted |-> converted,
                           changes |-> changes, stats |-> statistics(changes),
                           message |-> IF statistics(changes).identical
                                       THEN "Dokumenty identichny" ELSE "patch"]
    /\ UNCHANGED OutsideDiff

DiffInit == TblInit

DiffNext == Diff

SpecDiff == DiffInit /\ [][DiffNext]_vars

-----------------------------------------------------------------------------
(* Properties of diff *)

\* C23: the statistics report identical:true exactly when the two
\* documents are equal; diff(X, X) reports identical:true with no line
\* added or removed, for every X.
C23_IdenticalIffEqual ==
    diffCall.done =>
        /\ diffCall.stats.identical <=> (diffCall.original = diffCall.converted)
        /\ (diffCall.original = diffCall.converted) =>
              /\ diffCall.stats.linesAdded = 0
              /\ diffCall.stats.linesRemoved = 0

-----------------------------------------------------------------------------
(* XmlParser.  An XML text is a sequence of atoms: "<", ">", "/", a blank, *)
(* "TAB" (white space other than a blank), a tag name, an attribute        *)
(* name="value", a piece of text, "&" and the rest of an entity.  Positions *)
(* count atoms from 1; position 0 is the -1 of indexOf.                    *)

\* the attribute atoms: name and value of  name="value"
AttrAtoms == {"w:rsidR=1", "r:id=rId9", "xml:space=preserve"}

AttrName(a) ==
    CASE a = "w:rsidR=1" -> "@_w:rsidR"
      [] a = "r:id=rId9" -> "@_r:id"
      [] a = "xml:space=preserve" -> "@_xml:space"

AttrValue(a) ==
    CASE a = "w:rsidR=1" -> "1"
      [] a = "r:id=rId9" -> "rId9"
      [] a = "xml:space=preserve" -> "preserve"

\* xml.indexOf(atom, pos)
IndexOfAtom(xml, atom, pos) ==
    IF \E i \in pos..Len(xml) : xml[i] = atom
    THEN CHOOSE i \in pos..Len(xml) : xml[i] = atom /\ \A j \in pos..(i - 1) : xml[j] # atom
    ELSE 0

\* the string pat stands in xml at position i
MatchAt(xml, pat, i) ==
    /\ i + Len(pat) - 1 <= Len(xml)
    /\ \A k \in 1..Len(pat) : xml[i + k - 1] = pat[k]

\* the string n is the beginning of the name atom a
IsNamePrefix(n, a) ==
    /\ a \notin {"<", ">", "/", " ", "TAB", "&"}
    /\ Len(n) <= Len(a)
    /\ SubSeq(a, 1, Len(n)) = n

\* `<${tagName}` stands in xml at position i: the last atom of tagName may
\* be the beginning of a longer name
OpenTagStartAt(xml, tagName, i) ==
    /\ i + Len(tagName) <= Len(xml)
    /\ xml[i] = "<"
    /\ \A k \in 1..(Len(tagName) - 1) : xml[i + k] = tagName[k]
    /\ tagName # <<>> =>
          \/ xml[i + Len(tagName)] = tagName[Len(tagName)]
          \/ IsNamePrefix(tagName[Len(tagName)], xml[i + Len(tagName)])

\* xml.indexOf(openTagStart, pos)
IndexOfOpen(xml, tagName, pos) ==
    IF \E i \in pos..Len(xml) : OpenTagStartAt(xml, tagName, i)
    THEN CHOOSE i \in pos..Len(xml) :
             /\ OpenTagStartAt(xml, tagName, i)
             /\ \A j \in pos..(i - 1) : ~OpenTagStartAt(xml, tagName, j)
    ELSE 0

\* `</${tagName}>`
CloseTag(tagName) == <<"<", "/">> \o tagName \o <<">">>

\* xml.indexOf(closeTag, pos)
IndexOfClose(xml, tagName, pos) ==
    IF \E i \in pos..Len(xml) : MatchAt(xml, CloseTag(tagName), i)
    THEN CHOOSE i \in pos..Len(xml) :
             /\ MatchAt(xml, CloseTag(tagName), i)
             /\ \A j \in pos..(i - 1) : ~MatchAt(xml, CloseTag(tagName), j)
    ELSE 0

\* afterTagName === '>' || afterTagName === ' ' || afterTagName === '/',
\* for the opening tag found at nextOpen
IsOpeningTag(xml, tagName, nextOpen) ==
    LET last == nextOpen + Len(tagName)
    IN  /\ tagName # <<>> => xml[last] = tagName[Len(tagName)]
        /\ last + 1 <= Len(xml)
        /\ xml[last + 1] \in {">", " ", "/"}

\* const tagEnd = xml.indexOf('>', nextOpen);
\* tagEnd !== -1 && xml[tagEnd - 1] !== '/'
NotSelfClosing(xml, nextOpen) ==
    /\ IndexOfAtom(xml, ">", nextOpen) # 0
    /\ xml[IndexOfAtom(xml, ">", nextOpen) - 1] # "/"

\* an unclosed element if it were given no content
Empty_UnclosedContent(xml, startPos) ==
    [content |-> <<>>, endPos |-> Len(xml) + 1]

\* return { content: xml.substring(startPos), endPos: xml.length }
UnclosedContent(xml, startPos) ==
    [content |-> SubSeq(xml, startPos, Len(xml)), endPos |-> Len(xml) + 1]

\* one turn of the loop of findClosingTagContent: the result, or the next
\* pos and depth
ClosingTurn(xml, tagName, startPos, pos, depth) ==
    LET nextOpen == IndexOfOpen(xml, tagName, pos)
        nextClose == IndexOfClose(xml, tagName, pos)
    IN  IF nextClose = 0
        THEN [ret |-> TRUE, pos |-> pos, depth |-> depth,
              found |-> UnclosedContent(xml, startPos)]
        ELSE IF nextOpen # 0 /\ nextOpen < nextClose
        THEN [ret |-> FALSE, pos |-> nextOpen + 1 + Len(tagName),
              depth |-> IF IsOpeningTag(xml, tagName, nextOpen) /\ NotSelfClosing(xml, nextOpen)
                        THEN depth + 1 ELSE depth,
              found |-> UnclosedContent(xml, startPos)]
        ELSE IF depth = 1
        THEN [ret |-> TRUE, pos |-> pos, depth |-> 0,
              found |-> [content |-> SubSeq(xml, startPos, nextClose - 1),
                         endPos |-> nextClose + Len(CloseTag(tagName))]]
        ELSE [ret |-> FALSE, pos |-> nextClose + Len(CloseTag(tagName)),
              depth |-> depth - 1, found |-> UnclosedContent(xml, startPos)]

RECURSIVE ClosingLoop(_, _, _, _, _)
\* while (pos < xml.length && depth > 0)
ClosingLoop(xml, tagName, startPos, pos, depth) ==
    IF pos > Len(xml) THEN UnclosedContent(xml, startPos)
    ELSE LET t == ClosingTurn(xml, tagName, startPos, pos, depth)
         IN  IF t.ret THEN t.found
             ELSE ClosingLoop(xml, tagName, startPos, t.pos, t.depth)

findClosingTagContent(xml, tagName, startPos) ==
    ClosingLoop(xml, tagName, startPos, startPos, 1)

\* the first position at or after pos that holds no white space
SkipWs(xml, pos) ==
    IF \E i \in pos..Len(xml) : ~IsWs(xml[i])
    THEN CHOOSE i \in pos..Len(xml) : ~IsWs(xml[i]) /\ \A j \in pos..(i - 1) : IsWs(xml[j])
    ELSE Len(xml) + 1

\* parseAttributes: one entry per name, the last value wins
parseAttributes(attrStr) ==
    LET found == SelectSeq(attrStr, LAMBDA a : a \in AttrAtoms)
        kept == {i \in 1..Len(found) :
                    \A j \in (i + 1)..Len(found) : AttrName(found[j]) # AttrName(found[i])}
        first == {i \in 1..Len(found) :
                     \A j \in 1..(i - 1) : AttrName(found[j]) # AttrName(found[i])}
        nth(i) == CHOOSE j \in kept : AttrName(found[j]) = AttrName(found[i])
        order == SelectSeq([i \in 1..Len(found) |-> IF i \in first THEN i ELSE 0],
                           LAMBDA i : i # 0)
    IN  [k \in 1..Len(order) |->
            [name |-> AttrName(found[order[k]]), value |-> AttrValue(found[nth(order[k])])]]

\* parseTagContent: the name ends at the first white space
parseTagContent(tagContent) ==
    LET spaceIndex == IF \E i \in 1..Len(tagContent) : IsWs(tagContent[i])
                      THEN CHOOSE i \in 1..Len(tagContent) :
                               IsWs(tagContent[i])
                                   /\ \A j \in 1..(i - 1) : ~IsWs(tagContent[j])
                      ELSE 0
    IN  IF spaceIndex = 0
        THEN [tagName |-> tagContent, attributes |-> <<>>]
        ELSE [tagName |-> SubSeq(tagContent, 1, spaceIndex - 1),
              attributes |-> parseAttributes(SubSeq(tagContent, spaceIndex, Len(tagContent)))]

\* the value of an element: '' (isString), or an object with its
\* attributes, '#text', one key per child tag name, and '__children__'
Value(attributes, children) ==
    [isString |-> attributes = <<>> /\ ~children.hasText /\ children.keys = <<>>,
     attributes |-> attributes, hasText |-> children.hasText, text |-> children.text,
     keys |-> children.keys, childrenOrder |-> children.childrenOrder]

NoChildren == [hasText |-> FALSE, text |-> <<>>, keys |-> <<>>, childrenOrder |-> <<>>]

NullElement(endPos) ==
    [isNull |-> TRUE, tagName |-> <<>>, value |-> Value(<<>>, NoChildren), endPos |-> endPos]

\* addChild: the first value of a key is stored as it is, later ones make
\* the entry an array
addChild(keys, key, value) ==
    IF \E i \in 1..Len(keys) : keys[i].key = key
    THEN [i \in 1..Len(keys) |->
             IF keys[i].key = key
             THEN [keys[i] EXCEPT !.isArray = TRUE, !.values = Append(@, value)]
             ELSE keys[i]]
    ELSE Append(keys, [key |-> key, isArray |-> FALSE, values |-> <<value>>])

\* the ordered list if it were kept grouped by tag name
Grouped_push(childrenOrder, key, value, at) ==
    IF \E i \in 1..Len(childrenOrder) : childrenOrder[i].key = key
    THEN LET last == CHOOSE i \in 1..Len(childrenOrder) :
                         /\ childrenOrder[i].key = key
                         /\ \A j \in (i + 1)..Len(childrenOrder) : childrenOrder[j].key # key
         IN  SubSeq(childrenOrder, 1, last)
                 \o <<[key |-> key, value |-> value, at |-> at]>>
                 \o SubSeq(childrenOrder, last + 1, Len(childrenOrder))
    ELSE Append(childrenOrder, [key |-> key, value |-> value, at |-> at])

\* childrenOrder.push({ [key]: value }); `at` is the position of the
\* element in the content, which the code does not keep
childrenOrder_push(childrenOrder, key, value, at) ==
    Append(childrenOrder, [key |-> key, value |-> value, at |-> at])

RECURSIVE parseElement(_, _)
RECURSIVE ContentLoop(_, _, _)

\* one turn of the loop of parseContent, at a position that holds no white
\* space: an element or a piece of text
ContentTurn(content, pos, acc) ==
    IF content[pos] = "<"
    THEN LET e == parseElement(content, pos)
         IN  [pos |-> e.endPos,
              acc |-> IF e.isNull THEN acc
                      ELSE [acc EXCEPT !.keys = addChild(@, e.tagName, e.value),
                                       !.childrenOrder =
                                           childrenOrder_push(@, e.tagName, e.value, pos)]]
    ELSE LET textEnd == IndexOfAtom(content, "<", pos)
             stop == IF textEnd = 0 THEN Len(content) + 1 ELSE textEnd
             text == Trim(SubSeq(content, pos, stop - 1))
         IN  [pos |-> stop,
              acc |-> IF text # <<>>
                      THEN [acc EXCEPT !.hasText = TRUE, !.text = decodeXml(text)]
                      ELSE acc]

\* while (pos < content.length)
ContentLoop(content, pos, acc) ==
    IF SkipWs(content, pos) > Len(content) THEN acc
    ELSE LET t == ContentTurn(content, SkipWs(content, pos), acc)
         IN  ContentLoop(content, t.pos, t.acc)

\* XmlParser.parseContent
parseContent(content) == ContentLoop(content, 1, NoChildren)

\* XmlParser.parseElement
parseElement(xml, startPos) ==
    LET start == SkipWs(xml, startPos)
        tagEnd == IndexOfAtom(xml, ">", start)
        tagContent == SubSeq(xml, start + 1, tagEnd - 1)
    IN  IF start > Len(xml) \/ xml[start] # "<" THEN NullElement(start)
        ELSE IF tagEnd = 0 THEN NullElement(Len(xml) + 1)
        ELSE IF tagContent # <<>> /\ tagContent[Len(tagContent)] = "/"
        THEN LET tag == parseTagContent(Trim(SubSeq(tagContent, 1, Len(tagContent) - 1)))
             IN  [isNull |-> FALSE, tagName |-> tag.tagName,
                  value |-> Value(tag.attributes, NoChildren), endPos |-> tagEnd + 1]
        ELSE LET tag == parseTagContent(tagContent)
                 found == findClosingTagContent(xml, tag.tagName, tagEnd + 1)
             IN  [isNull |-> FALSE, tagName |-> tag.tagName,
                  value |-> Value(tag.attributes, parseContent(found.content)),
                  endPos |-> found.endPos]

RECURSIVE RemoveComments(_)
\* xml.replace(/<!--[\s\S]*?-->/g, '')
RemoveComments(xml) ==
    LET from == IndexOfAtom(xml, "<!--", 1)
        to == IF from = 0 THEN 0 ELSE IndexOfAtom(xml, "-->", from + 1)
    IN  IF from = 0 \/ to = 0 THEN xml
        ELSE SubSeq(xml, 1, from - 1) \o RemoveComments(SubSeq(xml, to + 1, Len(xml)))

\* XmlParser.parse: the declaration and the comments go, the text is
\* trimmed, the first element is returned
XmlParser_parse(xml) ==
    parseElement(Trim(RemoveComments(SelectSeq(xml, LAMBDA a : a # "<?xml?>"))), 1)

\* value[key] of a parsed object: the entry of the key, if any
HasKey(value, key) == \E i \in 1..Len(value.keys) : value.keys[i].key = key

Get(value, key) == value.keys[CHOOSE i \in 1..Len(value.keys) : value.keys[i].key = key]

\* if (value[key]): an array or an object is truthy, '' is not
Truthy(value, key) ==
    /\ HasKey(value, key)
    /\ Get(value, key).isArray \/ ~Get(value, key).values[1].isString

\* value[key] as an array: Array.isArray(x) ? x : [x]
AsArray(value, key) == IF HasKey(value, key) THEN Get(value, key).values ELSE <<>>

\* the value of an attribute, or "null"
AttributeOf(value, name) ==
    IF \E i \in 1..Len(value.attributes) : value.attributes[i].name = name
    THEN value.attributes[CHOOSE i \in 1..Len(value.attributes) :
                              value.attributes[i].name = name].value
    ELSE "null"

\* ElementExtractor.extractRun for a run without drawing: the text of w:t,
\* replaced by a tab or a line break if the run has a truthy w:tab or w:br
extractRun(run, rId) ==
    LET wT == Get(run, <<"w:t">>)
        text == IF ~Truthy(run, <<"w:t">>) THEN <<>>
                ELSE IF wT.isArray \/ ~wT.values[1].hasText THEN <<>>
                ELSE wT.values[1].text
    IN  [text |-> IF Truthy(run, <<"w:br">>) THEN <<"NL">>
                  ELSE IF Truthy(run, <<"w:tab">>) THEN <<"TAB">>
                  ELSE text,
         rId |-> rId]

\* ElementExtractor.extractHyperlink: the runs under the key w:r
extractHyperlink(hyperlink) ==
    [i \in 1..Len(AsArray(hyperlink, <<"w:r">>)) |->
        extractRun(AsArray(hyperlink, <<"w:r">>)[i], AttributeOf(hyperlink, "@_r:id"))]

\* ElementExtractor.extractRuns: along __children__ if the paragraph has
\* it, else the w:r entries, then the w:hyperlink entries
extractRuns(p) ==
    IF p.childrenOrder # <<>>
    THEN Flatten([i \in 1..Len(p.childrenOrder) |->
                     IF p.childrenOrder[i].key = <<"w:r">>
                     THEN <<extractRun(p.childrenOrder[i].value, "null")>>
                     ELSE IF p.childrenOrder[i].key = <<"w:hyperlink">>
                     THEN extractHyperlink(p.childrenOrder[i].value)
                     ELSE <<>>])
    ELSE [i \in 1..Len(AsArray(p, <<"w:r">>)) |-> extractRun(AsArray(p, <<"w:r">>)[i], "null")]
            \o Flatten([i \in 1..Len(AsArray(p, <<"w:hyperlink">>)) |->
                           extractHyperlink(AsArray(p, <<"w:hyperlink">>)[i])])

\* xml-utils wText
wText(text) ==
    <<"<", "w:t">>
        \o (IF text # <<>> /\ (IsWs(text[1]) \/ IsWs(text[Len(text)]))
            THEN <<" ", "xml:space=preserve">> ELSE <<>>)
        \o <<">">> \o escapeXml(text) \o CloseTag(<<"w:t">>)

\* xml-utils textRun without formatting options
textRun(text) == <<"<", "w:r", ">">> \o wText(text) \o CloseTag(<<"w:r">>)

RECURSIVE Serialize(_, _)
\* the text of a well-formed document: gap is the white space written
\* between a tag name and its attributes
Serialize(n, gap) ==
    LET open == <<"<", n.tag>>
                    \o Flatten([i \in 1..Len(n.attributes) |-> <<gap, n.attributes[i]>>])
    IN  IF n.text = <<>> /\ n.kids = <<>> THEN open \o <<"/", ">">>
        ELSE open \o <<">">> \o escapeXml(n.text)
                 \o Flatten([i \in 1..Len(n.kids) |-> Serialize(n.kids[i], gap)])
                 \o CloseTag(<<n.tag>>)

Run(text) == El("w:r", <<>>, <<>>, <<El("w:t", <<>>, text, <<>>)>>)

Para(kids) == El("w:p", <<"w:rsidR=1">>, <<>>, kids)

\* the children a paragraph is made of: runs, a hyperlink around a run,
\* paragraph properties
ParaChildren ==
    {Run(<<"A">>), Run(<<"B">>),
     El("w:hyperlink", <<"r:id=rId9">>, <<>>, <<Run(<<"C">>)>>),
     El("w:pPr", <<>>, <<>>, <<>>)}

RECURSIVE NestedTable(_, _)
\* a table of one row; its first cell holds depth more tables, one inside
\* the other, each followed by a paragraph; after is a second cell or none
NestedTable(depth, after) ==
    El("w:tbl", <<>>, <<>>,
       <<El("w:tr", <<"w:rsidR=1">>, <<>>,
            <<El("w:tc", <<>>, <<>>,
                 (IF depth = 0 THEN <<>> ELSE <<NestedTable(depth - 1, after)>>)
                     \o <<Para(<<Run(<<"A">>)>>)>>)>>
                \o after)>>)

\* the well-formed documents: paragraphs of mixed children, tables nested
\* in cells
Trees ==
    {Para(kids) : kids \in SeqsUpTo(ParaChildren, MaxChildren)}
        \cup {NestedTable(d, after) :
                 d \in 0..MaxDepth,
                 after \in {<<>>, <<El("w:tc", <<>>, <<>>, <<Para(<<Run(<<"B">>)>>)>>)>>}}

\* the strings a text run is emitted for
RunTexts ==
    {<<>>, <<"x">>, <<" ", "x">>, <<"x", " ">>, <<" ">>, <<"x", " ", "x">>,
     <<"&">>, <<"<", "x", ">">>, <<"QUOT">>, <<"APOS">>,
     <<"&", "amp;">>, <<"&", "lt;">>, <<"&", "quot;">>, <<"&", "apos;">>}

\* the atoms arbitrary texts are made of
TextAtoms == {"<", ">", "/", " ", "a", "x"}

\* XmlParser.parse on a well-formed document, ElementExtractor.extractRuns
\* on the paragraph it returned
ParseDocument ==
    /\ ~xmlDoc.done
    /\ \E tree \in Trees, gap \in {" ", "TAB"}, prolog \in BOOLEAN :
          LET xml == (IF prolog THEN <<"<?xml?>", "TAB", "<!--", "x", "-->", "TAB">> ELSE <<>>)
                         \o Serialize(tree, gap)
              e == XmlParser_parse(xml)
          IN  xmlDoc' = [done |-> TRUE, kind |-> "document", xml |-> xml, tree |-> tree,
                         isNull |-> e.isNull, tagName |-> e.tagName, value |-> e.value,
                         runs |-> IF e.tagName = <<"w:p">> THEN extractRuns(e.value)
                                  ELSE <<>>]
    /\ UNCHANGED OutsideXml

\* textRun(s) on the forward path, XmlParser.parse and extractRun on the
\* reverse path
ReadRun ==
    /\ ~xmlDoc.done
    /\ \E text \in RunTexts :
          LET e == XmlParser_parse(textRun(text))
          IN  xmlDoc' = [done |-> TRUE, kind |-> "run", xml |-> textRun(text),
                         tree |-> Run(text),
                         isNull |-> e.isNull, tagName |-> e.tagName, value |-> e.value,
                         runs |-> <<extractRun(e.value, "null")>>]
    /\ UNCHANGED OutsideXml

\* XmlParser.parse on an arbitrary text
ParseText ==
    /\ ~xmlDoc.done
    /\ \E xml \in SeqsUpTo(TextAtoms, MaxAtoms) :
          LET e == XmlParser_parse(xml)
          IN  xmlDoc' = [done |-> TRUE, kind |-> "text", xml |-> xml, tree |-> NoXml.tree,
                         isNull |-> e.isNull, tagName |-> e.tagName, value |-> e.value,
                         runs |-> <<>>]
    /\ UNCHANGED OutsideXml

XmlInit == TblInit

XmlNext ==
    \/ ParseDocument
    \/ ReadRun
    \/ ParseText

SpecXml == XmlInit /\ [][XmlNext]_vars

-----------------------------------------------------------------------------
(* Properties of the XML parser *)

\* C29: a text run emitted for s is read back as exactly s.
C29_RunTextReadBack ==
    (xmlDoc.done /\ xmlDoc.kind = "run") =>
        xmlDoc.runs[1].text = xmlDoc.tree.kids[1].text

RECURSIVE InDocumentOrder(_)
\* in every object of the value, __children__ lists the values stored under
\* the tag-name keys, each once, by ascending position in the content
InDocumentOrder(value) ==
    /\ \A i \in 1..(Len(value.childrenOrder) - 1) :
          value.childrenOrder[i].at < value.childrenOrder[i + 1].at
    /\ \A i \in 1..Len(value.childrenOrder) :
          /\ HasKey(value, value.childrenOrder[i].key)
          /\ InDocumentOrder(value.childrenOrder[i].value)
    /\ \A k \in 1..Len(value.keys) :
          LET listed == SelectSeq(value.childrenOrder,
                                  LAMBDA c : c.key = value.keys[k].key)
          IN  value.keys[k].values = [i \in 1..Len(listed) |-> listed[i].value]

\* the texts of the runs of a source paragraph, in document order
RunTextsOf(para) ==
    Flatten([i \in 1..Len(para.kids) |->
                IF para.kids[i].tag = "w:r" THEN <<para.kids[i].kids[1].text>>
                ELSE IF para.kids[i].tag = "w:hyperlink"
                THEN [j \in 1..Len(para.kids[i].kids) |-> para.kids[i].kids[j].kids[1].text]
                ELSE <<>>])

\* C25: for every element the parser returns, the ordered children list
\* holds one entry per child element in document order, also when tag names
\* are interleaved, and the runs extracted from a paragraph follow document
\* order.
C25_ChildrenInDocumentOrder ==
    (xmlDoc.done /\ ~xmlDoc.isNull) =>
        /\ InDocumentOrder(xmlDoc.value)
        /\ (xmlDoc.kind = "document" /\ xmlDoc.tree.tag = "w:p") =>
              /\ [i \in 1..Len(xmlDoc.value.childrenOrder) |->
                     xmlDoc.value.childrenOrder[i].key]
                    = [i \in 1..Len(xmlDoc.tree.kids) |-> <<xmlDoc.tree.kids[i].tag>>]
              /\ [i \in 1..Len(xmlDoc.runs) |-> xmlDoc.runs[i].text]
                    = RunTextsOf(xmlDoc.tree)

\* a paragraph with a run, a hyperlink and another run was parsed and its
\* runs extracted: plain, linked, plain
C25_InterleavedRunsExtracted ==
    /\ xmlDoc.done
    /\ xmlDoc.kind = "document"
    /\ xmlDoc.tree.tag = "w:p"
    /\ [i \in 1..Len(xmlDoc.tree.kids) |-> xmlDoc.tree.kids[i].tag]
          = <<"w:r", "w:hyperlink", "w:r">>
    /\ [i \in 1..Len(xmlDoc.runs) |-> xmlDoc.runs[i].rId] = <<"null", "rId9", "null">>
    /\ [i \in 1..Len(xmlDoc.runs) |-> xmlDoc.runs[i].text] = <<<<"A">>, <<"C">>, <<"B">>>>

\* C26: on every text the loops of the parser move forward at every turn,
\* so parse returns; an element without closing tag gets the rest of the
\* buffer as its content.
C26_ParseReturnsOnAnyText ==
    (xmlDoc.done /\ xmlDoc.kind = "text") =>
        LET xml == Trim(xmlDoc.xml)
            tagEnd == IndexOfAtom(xml, ">", 1)
            tagContent == SubSeq(xml, 2, tagEnd - 1)
            tag == parseTagContent(tagContent)
        IN  /\ \A p \in 1..Len(xml) :
                  ~IsWs(xml[p]) => ContentTurn(xml, p, NoChildren).pos > p
            /\ \A p \in 1..Len(xml), name \in {<<>>, <<"a">>, <<"/", "a">>} :
                  LET t == ClosingTurn(xml, name, 1, p, 1)
                  IN  t.ret \/ t.pos > p
            /\ (/\ xml # <<>> /\ xml[1] = "<" /\ tagEnd # 0
                /\ (tagContent = <<>> \/ tagContent[Len(tagContent)] # "/")
                /\ IndexOfClose(xml, tag.tagName, tagEnd + 1) = 0)
                  => /\ ~xmlDoc.isNull
                     /\ xmlDoc.tagName = tag.tagName
                     /\ xmlDoc.value
                           = Value(tag.attributes,
                                   parseContent(SubSeq(xml, tagEnd + 1, Len(xml))))

\* the text <a>x</ was parsed: the element a has no closing tag and the
\* text x as content
C26_UnclosedElementParsed ==
    /\ xmlDoc.done
    /\ xmlDoc.kind = "text"
    /\ xmlDoc.xml = <<"<", "a", ">", "x", "<">>
    /\ ~xmlDoc.isNull
    /\ xmlDoc.tagName = <<"a">>
    /\ xmlDoc.value.hasText
    /\ xmlDoc.value.text = <<"x">>

RECURSIVE ShapeOf(_, _)
\* the tree the parser returned: tag, text, children along __children__
ShapeOf(tagName, value) ==
    [tag |-> tagName, text |-> IF value.hasText THEN value.text ELSE <<>>,
     kids |-> [i \in 1..Len(value.childrenOrder) |->
                  ShapeOf(value.childrenOrder[i].key, value.childrenOrder[i].value)]]

RECURSIVE TreeShape(_)
\* the tree of the source document
TreeShape(n) ==
    [tag |-> <<n.tag>>, text |-> n.text,
     kids |-> [i \in 1..Len(n.kids) |-> TreeShape(n.kids[i])]]

\* C30: in a well-formed document every opening tag is paired with its own
\* closing tag, also when elements of one tag name are nested: the parsed
\* tree is the tree of the document.
C30_NestedSameNamePaired ==
    (xmlDoc.done /\ xmlDoc.kind = "document") =>
        /\ ~xmlDoc.isNull
        /\ ShapeOf(xmlDoc.tagName, xmlDoc.value) = TreeShape(xmlDoc.tree)

-----------------------------------------------------------------------------
(* The function table of the forward path, read back by the function-table
   recognizer: function-table-builder.js, image-builder, the assembly
   context, ElementExtractor, FormattingRecognizer, FunctionTableRecognizer.
   A text is a sequence of tokens; "**" is the bold marker, "|" the pipe,
   "---" a run of dashes, "![" "](" ")" the brackets of an image. *)

IsMarker(t) == t = "**"

\* a w:r with its w:t (the escaped text as written), or with a drawing
Fragment(text, bold, link, image, name) ==
    [text |-> text, bold |-> bold, link |-> link, image |-> image, name |-> name]

\* a w:p: the numId of its w:numPr ("" without), whether it has a w:pPr
\* for centring, its runs; a w:tbl: its rows of cells of paragraphs
P(numId, centered, runs) ==
    [type |-> "p", numId |-> numId, centered |-> centered, runs |-> runs, rows |-> <<>>]

Tbl(rows) ==
    [type |-> "tbl", numId |-> "", centered |-> FALSE, runs |-> <<>>, rows |-> rows]

\* the least element of a non-empty set of numbers
Least(S) == CHOOSE i \in S : \A j \in S : i <= j

\* the closing marker of the bold span /\*\*([^*]+)\*\*/ opened at i, 0 if none
ClosingMarker(text, i) ==
    LET js == {j \in (i + 2)..Len(text) :
                  /\ IsMarker(text[j])
                  /\ \A k \in (i + 1)..(j - 1) : ~IsMarker(text[k])}
    IN  IF IsMarker(text[i]) /\ js # {} THEN Least(js) ELSE 0

\* buildTextElement: <w:t> with the escaped text
buildTextElement(text) == escapeXml(text)

RECURSIVE processTextWithBold(_)
\* processTextWithBold: a bold run for every **span**, a plain run for the
\* text between the spans
processTextWithBold(text) ==
    IF text = <<>> THEN <<>>
    ELSE LET opens == {i \in 1..Len(text) : ClosingMarker(text, i) # 0}
         IN  IF opens = {}
             THEN <<Fragment(buildTextElement(text), FALSE, "", "", "")>>
             ELSE LET i == Least(opens)
                      j == ClosingMarker(text, i)
                  IN  (IF i > 1
                       THEN <<Fragment(buildTextElement(SubSeq(text, 1, i - 1)),
                                       FALSE, "", "", "")>>
                       ELSE <<>>)
                      \o <<Fragment(buildTextElement(SubSeq(text, i + 1, j - 1)),
                                    TRUE, "", "", "")>>
                      \o processTextWithBold(SubSeq(text, j + 1, Len(text)))

\* processTextFormatting of a text without Markdown links
processTextFormatting(text) == processTextWithBold(text)

RECURSIVE SplitOn(_, _)
\* s.split(sep)
SplitOn(s, sep) ==
    IF \A i \in 1..Len(s) : s[i] # sep THEN <<s>>
    ELSE LET i == Least({k \in 1..Len(s) : s[k] = sep})
         IN  <<SubSeq(s, 1, i - 1)>> \o SplitOn(SubSeq(s, i + 1, Len(s)), sep)

\* markdown-table-parser parseTableRow: null unless the trimmed line starts
\* and ends with a pipe; the cells between the pipes, trimmed
parseTableRow(line) ==
    LET trimmed == Trim(line)
    IN  IF trimmed = <<>> \/ Head(trimmed) # "|" \/ trimmed[Len(trimmed)] # "|"
           \/ Len(trimmed) < 2
        THEN [ok |-> FALSE, cells |-> <<>>]
        ELSE LET cells == SplitOn(SubSeq(trimmed, 2, Len(trimmed) - 1), "|")
             IN  [ok |-> TRUE, cells |-> [c \in 1..Len(cells) |-> Trim(cells[c])]]

\* isTableSeparator: every cell is a run of dashes
isTableSeparator(line) ==
    LET row == parseTableRow(line)
    IN  row.ok /\ \A c \in 1..Len(row.cells) : row.cells[c] = <<"---">>

RECURSIVE DataRows(_, _)
\* the rows from currentIndex on up to the first line that is no row
DataRows(lines, currentIndex) ==
    IF currentIndex > Len(lines) \/ ~parseTableRow(lines[currentIndex]).ok THEN <<>>
    ELSE <<parseTableRow(lines[currentIndex]).cells>> \o DataRows(lines, currentIndex + 1)

\* parseMarkdownTable: a row followed by a separator, then the data rows
parseMarkdownTable(lines, startIndex) ==
    IF startIndex > Len(lines) \/ ~parseTableRow(lines[startIndex]).ok
    THEN [ok |-> FALSE, rows |-> <<>>, next |-> startIndex]
    ELSE IF startIndex + 1 > Len(lines) \/ ~isTableSeparator(lines[startIndex + 1])
    THEN [ok |-> FALSE, rows |-> <<>>, next |-> startIndex]
    ELSE LET rows == DataRows(lines, startIndex + 2)
         IN  [ok |-> TRUE, rows |-> <<parseTableRow(lines[startIndex]).cells>> \o rows,
              next |-> startIndex + 2 + Len(rows)]

\* an item of the parsed scenario
Item(type, content, items, url, alt, rows) ==
    [type |-> type, content |-> content, items |-> items, url |-> url, alt |-> alt,
     rows |-> rows]

NoList == [type |-> "none", items |-> <<>>]

\* if (currentList) result.push(currentList)
PushList(result, currentList) ==
    IF currentList.type = "none" THEN result
    ELSE Append(result, Item(currentList.type, <<>>, currentList.items, "", "", <<>>))

\* /^!\[([^\]]*)\]\(([^)]+)\)$/ on the trimmed line
IsImageLine(trimmed) ==
    \/ Len(trimmed) = 5 /\ trimmed[1] = "![" /\ trimmed[3] = "](" /\ trimmed[5] = ")"
    \/ Len(trimmed) = 4 /\ trimmed[1] = "![" /\ trimmed[2] = "](" /\ trimmed[4] = ")"

\* /^(\d+)\.\s+(.+)$/ and /^[-*]\s+(.+)$/ on the trimmed line
ListMarkers(type) == IF type = "numbered" THEN {"1.", "2."} ELSE {"-", "*"}

IsListLine(trimmed, type) ==
    /\ Len(trimmed) >= 3
    /\ trimmed[1] \in ListMarkers(type)
    /\ IsWs(trimmed[2])

\* the text of a list line behind the marker and the white space
ItemText(trimmed) == TrimStart(Tail(trimmed))

RECURSIVE ScenarioLoop(_, _, _, _)
\* the while loop of parseScenarioMarkdown
ScenarioLoop(lines, i, currentList, result) ==
    IF i > Len(lines) THEN PushList(result, currentList)
    ELSE
    LET trimmed == Trim(lines[i])
        pipe == trimmed # <<>> /\ Head(trimmed) = "|"
        parsed == parseMarkdownTable(lines, i)
        \* a line starting with a pipe closes the list, table or not
        list == IF pipe THEN NoList ELSE currentList
        flushed == IF pipe THEN PushList(result, currentList) ELSE result
    IN  IF trimmed = <<>> THEN ScenarioLoop(lines, i + 1, currentList, result)
        ELSE IF pipe /\ parsed.ok
        THEN ScenarioLoop(lines, parsed.next, NoList,
                          Append(flushed, Item("table", <<>>, <<>>, "", "", parsed.rows)))
        ELSE IF IsImageLine(trimmed)
        THEN ScenarioLoop(lines, i + 1, NoList,
                 Append(PushList(flushed, list),
                        Item("image", <<>>, <<>>, trimmed[Len(trimmed) - 1],
                             IF Len(trimmed) = 5 THEN trimmed[2] ELSE "", <<>>)))
        ELSE IF \E type \in {"numbered", "bullet"} : IsListLine(trimmed, type)
        THEN LET type == IF IsListLine(trimmed, "numbered") THEN "numbered" ELSE "bullet"
             IN  IF list.type = type
                 THEN ScenarioLoop(lines, i + 1,
                          [list EXCEPT !.items = Append(@, ItemText(trimmed))], flushed)
                 ELSE ScenarioLoop(lines, i + 1,
                          [type |-> type, items |-> <<ItemText(trimmed)>>],
                          PushList(flushed, list))
        ELSE ScenarioLoop(lines, i + 1, NoList,
                 Append(PushList(flushed, list),
                        Item("text", trimmed, <<>>, "", "", <<>>)))

\* parseScenarioMarkdown(scenarioText), the text given as its lines
parseScenarioMarkdown(lines) == ScenarioLoop(lines, 1, NoList, <<>>)

\* path.basename of an image path of the images directory
Basename(url) ==
    IF Len(url) > 7 /\ SubSeq(url, 1, 7) = "images/" THEN SubSeq(url, 8, Len(url)) ELSE url

\* the relationship ids assembleDocx leaves in the document: the ids below
\* FirstFreeRelId are the base relationships, then the hyperlinks, then
\* the images
HyperlinkId == "rId" \o ToString(FirstFreeRelId)

ImageId(links, k) == "rId" \o ToString(FirstFreeRelId + links + k - 1)

\* assembleDocx: the k-th image is copied to media/image<k>.<ext> of a
\* template without media
MediaName(k) == "image" \o ToString(getExistingImages({}) + k) \o ".png"

\* image-builder buildImageParagraph: a centred paragraph with the drawing,
\* or with a note when context.addImage found no file
buildImageParagraph(item, links, k, present) ==
    IF item.url \notin present
    THEN P("", TRUE, <<Fragment(<<"[Izobrazhenie ne najdeno:", " ", item.url, "]">>,
                                FALSE, "", "", "")>>)
    ELSE P("", TRUE, <<Fragment(<<>>, FALSE, "", ImageId(links, k), Basename(item.url))>>)

\* buildNestedTable: every cell text split at <br>, one paragraph a part
buildNestedTable(rows) ==
    [r \in 1..Len(rows) |->
        [c \in 1..Len(rows[r]) |->
            LET parts == SplitOn(rows[r][c], "<br>")
            IN  [k \in 1..Len(parts) |-> P("", FALSE, processTextFormatting(Trim(parts[k])))]]]

\* styles.numberingIds
numberingIds == [bullet |-> "1", decimal |-> "2"]

\* the images context.addImage has accepted before item n
ImagesBefore(parsed, n, present) ==
    Cardinality({m \in 1..(n - 1) : parsed[m].type = "image" /\ parsed[m].url \in present})

\* the paragraphs and tables buildScenarioContent emits for one item
ItemContent(parsed, n, links, present) ==
    LET item == parsed[n]
    IN  CASE item.type = "text" -> <<P("", FALSE, processTextFormatting(item.content))>>
          [] item.type = "numbered" ->
                [k \in 1..Len(item.items) |->
                    P(numberingIds.decimal, FALSE, processTextFormatting(item.items[k]))]
          [] item.type = "bullet" ->
                [k \in 1..Len(item.items) |->
                    P(numberingIds.bullet, FALSE, processTextFormatting(item.items[k]))]
          [] item.type = "image" ->
                <<buildImageParagraph(item, links, ImagesBefore(parsed, n, present) + 1, present)>>
          [] OTHER -> <<Tbl(buildNestedTable(item.rows))>>

\* buildScenarioContent: <w:p/> for an empty scenario or one without items
buildScenarioContent(lines, links, present) ==
    IF Join(lines, "NL") = <<>> THEN <<P("", FALSE, <<>>)>>
    ELSE LET parsed == parseScenarioMarkdown(lines)
             result == Flatten([n \in 1..Len(parsed) |-> ItemContent(parsed, n, links, present)])
         IN  IF result = <<>> THEN <<P("", FALSE, <<>>)>> ELSE result

\* isValidUrl: http:// or https://
HttpUrls == {"https://example.com/PROJ-42"}

isValidUrl(url) == url # <<>> /\ Head(url) \in HttpUrls

\* the hyperlinks the context has registered for the table
LinksOf(data) == IF isValidUrl(data.taskUrl) THEN 1 ELSE 0

\* buildFunctionTable: the second cells of the three rows (a directive
\* without id has no bookmark)
buildFunctionTable(data, present) ==
    [function |->
        <<P("", FALSE, <<Fragment(<<"BULLET", " ">>, FALSE, "", "", "")>>
                         \o processTextFormatting(data.function))>>,
     task |->
        IF isValidUrl(data.taskUrl)
        THEN <<P("", FALSE,
                 <<Fragment(escapeXml(IF data.task # <<>> THEN data.task ELSE data.taskUrl),
                            FALSE, HyperlinkId, "", "")>>)>>
        ELSE IF data.task # <<>>
             THEN <<P("", FALSE, <<Fragment(escapeXml(data.task), FALSE, "", "", "")>>)>>
             ELSE <<P("", FALSE, <<>>)>>,
     scenario |-> buildScenarioContent(data.scenario, LinksOf(data), present)]

\* a relationship of word/_rels/document.xml.rels as DocxReader reads it
Relation(id, type, target) == [id |-> id, type |-> type, target |-> target]

\* the scenario images whose file exists, in the order of the scenario
AcceptedImages(data, present) ==
    SelectSeq(parseScenarioMarkdown(data.scenario),
              LAMBDA item : item.type = "image" /\ item.url \in present)

\* assembleDocx: a relationship for the hyperlink and one for every image
RelationsOf(data, present) ==
    (IF isValidUrl(data.taskUrl)
     THEN <<Relation(HyperlinkId, "hyperlink", Head(data.taskUrl))>> ELSE <<>>)
    \o [k \in 1..Len(AcceptedImages(data, present)) |->
           Relation(ImageId(LinksOf(data), k), "image", "media/" \o MediaName(k))]

\* DocxReader.extractImages: the file names of word/media
MediaOf(data, present) ==
    [k \in 1..Len(AcceptedImages(data, present)) |-> MediaName(k)]

\* ElementExtractor.extractRun: the text of w:t as XmlParser left it, or
\* the image of the drawing with the name of pic:cNvPr as alt
ExtractedRun(run) ==
    [text |-> IF run.image # "" THEN <<>> ELSE parseContentText(run.text),
     bold |-> run.bold, link |-> run.link, image |-> run.image, alt |-> run.name]

\* ElementExtractor.extractParagraph of a paragraph of a cell
ExtractedParagraph(p) ==
    LET runs == [k \in 1..Len(p.runs) |-> ExtractedRun(p.runs[k])]
    IN  [numId |-> p.numId, runs |-> runs,
         text |-> Flatten([k \in 1..Len(runs) |-> runs[k].text])]

\* an element without attributes and children is parsed to ''
IsEmptyString(p) == p.numId = "" /\ ~p.centered /\ p.runs = <<>>

\* the paragraphs extractTableCell collects from tc['w:p']: none when the
\* value is '' (one empty paragraph)
CellParagraphs(content) ==
    LET ps == SelectSeq(content, LAMBDA b : b.type = "p")
    IN  IF Len(ps) = 1 /\ IsEmptyString(ps[1]) THEN <<>>
        ELSE [k \in 1..Len(ps) |-> ExtractedParagraph(ps[k])]

\* ElementExtractor.extractTable of a table nested in a cell
ExtractedTable(tbl) ==
    [r \in 1..Len(tbl.rows) |->
        [c \in 1..Len(tbl.rows[r]) |-> CellParagraphs(tbl.rows[r][c])]]

\* ElementExtractor.extractTableCell: the paragraphs, then the tables
ExtractedCell(content) ==
    LET ps == CellParagraphs(content)
        tbls == SelectSeq(content, LAMBDA b : b.type = "tbl")
    IN  [paragraphs |-> ps,
         tables |-> [k \in 1..Len(tbls) |-> ExtractedTable(tbls[k])],
         text |-> Join([k \in 1..Len(ps) |-> ps[k].text], "NL")]

\* relations[id]
RelationsWithId(relations, id) == SelectSeq(relations, LAMBDA r : r.id = id)

\* FormattingRecognizer.formatHyperlink of an external link
formatHyperlink(text, rId, relations) ==
    LET rel == RelationsWithId(relations, rId)
    IN  IF rId # "" /\ rel # <<>> /\ rel[1].type = "hyperlink"
        THEN <<"[">> \o text \o <<"](", rel[1].target, ")">>
        ELSE text

\* FormattingRecognizer.formatImage: ![alt](images/<file name in word/media>)
formatImage(image, alt, relations, images) ==
    LET rel == RelationsWithId(relations, image)
        found == IF rel = <<>> THEN <<>>
                 ELSE SelectSeq(images, LAMBDA f : "media/" \o f = rel[1].target)
    IN  IF rel = <<>> \/ rel[1].type # "image" \/ found = <<>> THEN <<>>
        ELSE <<"![", IF alt # "" THEN alt ELSE "image", "](", "images/" \o found[1], ")">>

\* the number of markers a text starts with
RECURSIVE MarkerPrefix(_)
MarkerPrefix(s) ==
    IF s = <<>> \/ ~IsMarker(Head(s)) THEN 0 ELSE 1 + MarkerPrefix(Tail(s))

RECURSIVE RemoveEmptyBold(_)
\* replace(/\*\*\*\*\*\*/g, '') then replace(/\*\*\*\*/g, ''): of n markers
\* in a row, (n mod 3) mod 2 are left
RemoveEmptyBold(s) ==
    IF s = <<>> THEN <<>>
    ELSE IF ~IsMarker(Head(s)) THEN <<Head(s)>> \o RemoveEmptyBold(Tail(s))
    ELSE LET n == MarkerPrefix(s)
         IN  [i \in 1..((n % 3) % 2) |-> "**"] \o RemoveEmptyBold(SubSeq(s, n + 1, Len(s)))

\* the next marker behind position i, 0 if none
NextMarker(s, i) ==
    LET js == {j \in (i + 1)..Len(s) : IsMarker(s[j])}
    IN  IF js = {} THEN 0 ELSE Least(js)

RECURSIVE DroppedMarkers(_, _)
\* /\*([^*]+)\*\*([^*]+)\*/g matches from the second star of a marker over
\* the next marker to the first star of the one after it, and the
\* replacement '*$1$2*' drops the marker in the middle
DroppedMarkers(s, i) ==
    IF i = 0 THEN {}
    ELSE LET j == NextMarker(s, i)
             k == IF j = 0 THEN 0 ELSE NextMarker(s, j)
         IN  IF j = 0 \/ k = 0 THEN {}
             ELSE IF j > i + 1 /\ k > j + 1 THEN {j} \cup DroppedMarkers(s, k)
             ELSE DroppedMarkers(s, j)

\* FormattingRecognizer.mergeAdjacentFormatting
mergeAdjacentFormatting(s) ==
    LET dropped == DroppedMarkers(s, NextMarker(s, 0))
    IN  Flatten([i \in 1..Len(s) |-> IF i \in dropped THEN <<>> ELSE <<s[i]>>])

\* the part formatRuns pushes for one run
FormattedRun(run, relations, images) ==
    IF run.image # "" THEN formatImage(run.image, run.alt, relations, images)
    ELSE IF run.text = <<>> THEN <<>>
    ELSE LET text == IF run.bold THEN <<"**">> \o run.text \o <<"**">> ELSE run.text
         IN  IF run.link # "" THEN formatHyperlink(text, run.link, relations) ELSE text

\* FormattingRecognizer.formatRuns
formatRuns(runs, relations, images) ==
    mergeAdjacentFormatting(RemoveEmptyBold(
        Flatten([k \in 1..Len(runs) |-> FormattedRun(runs[k], relations, images)])))

\* FunctionTableRecognizer.formatCell: the formatted paragraphs joined by
\* "\n", a paragraph of a list behind "1. "
FunctionTableRecognizer_formatCell(cell, relations, images) ==
    IF cell.paragraphs = <<>> THEN cell.text
    ELSE Join([k \in 1..Len(cell.paragraphs) |->
                 LET p == cell.paragraphs[k]
                     text == IF p.runs # <<>> THEN formatRuns(p.runs, relations, images)
                             ELSE p.text
                 IN  IF p.numId # "" THEN <<"1.", " ">> \o text ELSE text],
              "NL")

\* table-to-markdown escapeTableCell: pipes escaped, "\n" to <br>, trimmed
tableToMarkdown_escapeTableCell(text) ==
    Trim([i \in 1..Len(text) |->
             IF text[i] = "|" THEN "\\|" ELSE IF text[i] = "NL" THEN "<br>" ELSE text[i]])

\* `| ${cells.join(' | ')} |`
RowLine(cells) ==
    <<"|", " ">> \o Flatten([c \in 1..Len(cells) |->
                      IF c = 1 THEN cells[c] ELSE <<" ", "|", " ">> \o cells[c]])
    \o <<" ", "|">>

\* tableToMarkdownIndented(table, 0): a line for every row, the separator
\* behind the first, a line break at the end
tableToMarkdownIndented(rows) ==
    IF rows = <<>> THEN <<>>
    ELSE LET line(r) ==
                 RowLine([c \in 1..Len(rows[r]) |->
                     tableToMarkdown_escapeTableCell(
                         Join([k \in 1..Len(rows[r][c]) |-> rows[r][c][k].text], "<br>"))])
             lines == Flatten([r \in 1..Len(rows) |->
                         IF r = 1
                         THEN <<line(r), RowLine([c \in 1..Len(rows[r]) |-> <<"---">>])>>
                         ELSE <<line(r)>>])
         IN  Join(lines, "NL") \o <<"NL">>

RECURSIVE JoinBlank(_)
\* parts.join('\n\n')
JoinBlank(parts) ==
    IF parts = <<>> THEN <<>>
    ELSE IF Len(parts) = 1 THEN parts[1]
    ELSE parts[1] \o <<"NL", "NL">> \o JoinBlank(Tail(parts))

\* the URL of the task text: of a Markdown link, else a plain URL
TaskUrlOf(taskText) ==
    LET linked == {i \in 2..Len(taskText) : taskText[i - 1] = "](" /\ taskText[i] \in HttpUrls}
        plain == {i \in 1..Len(taskText) : taskText[i] \in HttpUrls}
    IN  IF linked # {} THEN <<taskText[Least(linked)]>>
        ELSE IF plain # {} THEN <<taskText[Least(plain)]>>
        ELSE <<>>

\* FunctionTableRecognizer.recognize with the cells formatted; taskUrl is
\* <<>> for null
recognizeFormatted(cells, relations, images) ==
    LET functionText == FunctionTableRecognizer_cleanText(
            FunctionTableRecognizer_formatCell(ExtractedCell(cells.function), relations, images))
        taskText == FunctionTableRecognizer_cleanText(
            FunctionTableRecognizer_formatCell(ExtractedCell(cells.task), relations, images))
        scenarioCell == ExtractedCell(cells.scenario)
        scenarioText == FunctionTableRecognizer_formatCell(scenarioCell, relations, images)
        fullScenario == IF Trim(scenarioText) # <<>>
                        THEN Trim(scenarioText) \o <<"NL", "NL">> ELSE <<>>
        nestedTablesMarkdown ==
            JoinBlank([k \in 1..Len(scenarioCell.tables) |->
                          tableToMarkdownIndented(scenarioCell.tables[k])])
    IN  Fields(functionText, taskText, TaskUrlOf(taskText),
               TrimStart(IF scenarioCell.tables # <<>>
                         THEN fullScenario \o nestedTablesMarkdown
                         ELSE scenarioText))

-----------------------------------------------------------------------------
(* The round trip of a function table as a state machine *)

FunctionTexts == {<<"Approve request">>, <<"**", "Save", "**", " ", "A", "&", "B">>}

TaskTexts == {<<>>, <<"PROJ-42">>}

TaskUrls == {<<>>, <<"https://example.com/PROJ-42">>}

ImageUrls == {"images/a.png"}

\* lines of a scenario: numbered and bulleted items, text with bold spans,
\* an image, a table row, a separator row, an empty line
ScenarioLines ==
    {<<"1.", " ", "Open form">>,
     <<"2.", " ", "Click submit">>,
     <<"-", " ", "Click", " ", "**", "Save", "**">>,
     <<"**", "A", "**", " ", "x", " ", "**", "B", "**">>,
     <<"|", " ", "a", " ", "|", " ", "b", " ", "|">>,
     <<"|", "---", "|", "---", "|">>,
     <<>>}
    \cup {<<"![", "alt", "](", url, ")">> : url \in ImageUrls}

\* the forward path: buildFunctionTable with the assembly context, then
\* assembleDocx writes the relationships and the media
BuildFunctionTable ==
    /\ scn.phase = "idle"
    /\ \E function \in FunctionTexts, task \in TaskTexts, taskUrl \in TaskUrls,
          scenario \in SeqsUpTo(ScenarioLines, MaxScenarioLines),
          present \in SUBSET ImageUrls :
          LET data == Fields(function, task, taskUrl, scenario)
          IN  scn' = [scn EXCEPT !.phase = "emitted", !.data = data, !.files = present,
                                 !.cells = buildFunctionTable(data, present),
                                 !.relations = RelationsOf(data, present),
                                 !.images = MediaOf(data, present)]
    /\ UNCHANGED OutsideScenario

\* the reverse path: the cells extracted from the parsed table, then
\* FunctionTableRecognizer.recognize, with the relations and images of the
\* document as context or without context
RecognizeFunctionTable ==
    /\ scn.phase = "emitted"
    /\ \E context \in BOOLEAN :
          scn' = [scn EXCEPT !.phase = "reversed", !.context = context,
                             !.result = recognizeFormatted(scn.cells,
                                            IF context THEN scn.relations ELSE <<>>,
                                            IF context THEN scn.images ELSE <<>>)]
    /\ UNCHANGED OutsideScenario

ScnInit == TblInit

ScnNext ==
    \/ BuildFunctionTable
    \/ RecognizeFunctionTable

SpecFunctionTable == ScnInit /\ [][ScnNext]_vars

\* the words of a text: its tokens without white space and bold markers
Words(text) == SelectSeq(text, LAMBDA t : ~IsWs(t) /\ ~IsMarker(t))

\* the structural content of a scenario: the words of the list items in
\* order, the image URLs in order, the words of the cells of the tables
StructureOf(lines) ==
    LET parsed == parseScenarioMarkdown(lines)
        ofType(type) == SelectSeq(parsed, LAMBDA item : item.type = type)
        lists == SelectSeq(parsed, LAMBDA item : item.type \in {"numbered", "bullet"})
    IN  [items |-> Flatten([n \in 1..Len(lists) |->
                     [k \in 1..Len(lists[n].items) |-> Words(lists[n].items[k])]]),
         images |-> [n \in 1..Len(ofType("image")) |-> ofType("image")[n].url],
         tables |-> [n \in 1..Len(ofType("table")) |->
                     [r \in 1..Len(ofType("table")[n].rows) |->
                         [c \in 1..Len(ofType("table")[n].rows[r]) |->
                             Words(ofType("table")[n].rows[r][c])]]]]

\* the URLs of the image lines of a scenario
ImagesOf(lines) == {item.url : item \in Range(SelectSeq(parseScenarioMarkdown(lines),
                                             LAMBDA item : item.type = "image"))}

\* C21: the scenario text read back from the emitted scenario cell has the
\* structural content of the scenario: the same list items in the same
\* order, the same image URLs, the same values in the cells of the nested
\* tables (white space aside), here with every image file present and the
\* relations and images of the document given to the recognizer
C21_ScenarioStructureReproduced ==
    (/\ scn.phase = "reversed"
     /\ scn.context
     /\ ImagesOf(scn.data.scenario) \subseteq scn.files) =>
        StructureOf(Split(scn.result.scenario)) = StructureOf(scn.data.scenario)

\* the function-table directive of the example
Example ==
    Fields(<<"Approve request">>, <<"PROJ-42">>, <<"https://example.com/PROJ-42">>,
           << <<"1.", " ", "Open form">>, <<"2.", " ", "Click submit">> >>)

\* C22: reversing the table emitted for the example recovers the function
\* "Approve request", the task "PROJ-42", the task URL
\* "https://example.com/PROJ-42" and a scenario with both list lines in
\* their order
C22_ExampleRecovered ==
    (scn.phase = "reversed" /\ scn.data = Example) =>
        /\ scn.result.function = Example.function
        /\ scn.result.task = Example.task
        /\ scn.result.taskUrl = Example.taskUrl
        /\ StructureOf(Split(scn.result.scenario)).items
               = << <<"Open form">>, <<"Click submit">> >>

====
